---- MODULE Spec2Model ----
(***************************************************************************)
(* Capability routing in the MCP server scaffolds: the tool registries     *)
(* (ToolManager, the main.ts loader, MCPServer), the request dispatchers   *)
(* (ToolHandler, handleToolRequest, MCPServer.invokeTool, CoreServer), the *)
(* provider selectors and the Python bridge of IntegratedAITool.           *)
(*                                                                         *)
(* JavaScript strings are modelled as sequences of one-character strings,  *)
(* so that startsWith, endsWith, replace and template concatenation are    *)
(* computed and not assumed.                                               *)
(***************************************************************************)
EXTENDS Integers, Sequences, FiniteSets, TLC

\* ------------------------------------------------------------------ bounds
\* Largest number of entries a tool directory holds.
MaxFiles == 2
\* Number of requests dispatched.
NReq == 1
\* Largest configured execution budget, in ticks.
MaxTimeout == 2
\* Ticks the clock runs past the largest budget.
Slack == 1
\* Number of selector calls recorded.
MaxCalls == 2
\* Number of messages sent to the Python process.
MaxSends == 4

\* ----------------------------------------------------------- JS strings
\* String.prototype.startsWith
StartsWith(s, p) ==
    /\ Len(p) <= Len(s)
    /\ SubSeq(s, 1, Len(p)) = p

\* String.prototype.endsWith
EndsWith(s, p) ==
    /\ Len(p) <= Len(s)
    /\ SubSeq(s, Len(s) - Len(p) + 1, Len(s)) = p

\* String.prototype.indexOf, 1-based; 0 when p does not occur in s.
IndexOf(s, p) ==
    LET hits == {i \in 1..(Len(s) - Len(p) + 1) : SubSeq(s, i, i + Len(p) - 1) = p}
    IN  IF hits = {} THEN 0 ELSE CHOOSE i \in hits : \A j \in hits : i <= j

\* String.prototype.replace(p, r) with a string pattern: the first occurrence only.
Replace(s, p, r) ==
    LET i == IndexOf(s, p)
    IN  IF i = 0 THEN s
        ELSE SubSeq(s, 1, i - 1) \o r \o SubSeq(s, i + Len(p), Len(s))

Slash == <<"/">>
ExtJs == <<".", "j", "s">>
ExtTs == <<".", "t", "s">>
ToolSuffix == <<"_", "t", "o", "o", "l", ".", "j", "s">>

\* ------------------------------------------------------- tool categories
sAi == <<"a", "i">>
sWeb == <<"w", "e", "b">>
sGoogle == <<"g", "o", "o", "g", "l", "e">>
sMeta == <<"m", "e", "t", "a">>
sPattern == <<"p", "a", "t", "t", "e", "r", "n">>
sWorkflow == <<"w", "o", "r", "k", "f", "l", "o", "w">>
sCode == <<"c", "o", "d", "e">>
sCodeAnalysis == <<"c", "o", "d", "e", "-", "a", "n", "a", "l", "y", "s", "i", "s">>
sMlServices == <<"m", "l", "-", "s", "e", "r", "v", "i", "c", "e", "s">>
sIntegrated == <<"i", "n", "t", "e", "g", "r", "a", "t", "e", "d">>

\* Object.values(TOOL_CATEGORIES), in property order.
TOOL_CATEGORIES ==
    << sAi, sWeb, sGoogle, sMeta, sPattern, sWorkflow, sCode, sCodeAnalysis,
       sMlServices, sIntegrated >>

\* main.ts: the directories the loader visits, in order.
toolDirectories == << sAi, sWeb, sGoogle, sMeta, sPattern, sWorkflow, sCode >>

\* ----------------------------------------------------------- file system
\* The tool directories' content is the loaders' input.  A directory entry is
\* a file name and whether requiring/constructing it throws.  readdirSync
\* returns the names in an order the platform chooses: every order of distinct
\* names is possible.  A directory without a listing does not exist.
fXTool == <<"x">> \o ToolSuffix
fY == <<"y">> \o ExtTs
fReadme == <<"r", ".", "m", "d">>

FileNames == {fXTool, fY, fReadme}

\* Only a module the loader requires can throw.
Loadable(name) == EndsWith(name, ExtJs) \/ EndsWith(name, ExtTs)

FileEntries ==
    {e \in [name : FileNames, throws : BOOLEAN] : e.throws => Loadable(e.name)}

DirListings ==
    UNION { {l \in [1..n -> FileEntries] :
                \A i, j \in 1..n : i # j => l[i].name # l[j].name} : n \in 0..MaxFiles }

FileSystemsOver(dirs) == [dirs -> DirListings]

\* fs.existsSync: a directory with no listing in the model does not exist.
ExistsSync(f, dir) == dir \in DOMAIN f

\* -------------------------------------------------------- ordered maps
\* A JS Map (and the own keys of a plain object) keeps insertion order: a
\* sequence of [key, value]; set() of a present key replaces the value in place.
HasKey(m, k) == \E i \in 1..Len(m) : m[i].key = k

MapGet(m, k) == (CHOOSE i \in 1..Len(m) : m[i].key = k)

Undefined == [undefined |-> TRUE]

\* Map.prototype.get
Get(m, k) == IF HasKey(m, k) THEN m[MapGet(m, k)].value ELSE Undefined

\* Map.prototype.set
Set(m, k, v) ==
    IF HasKey(m, k)
    THEN [m EXCEPT ![MapGet(m, k)] = [key |-> k, value |-> v]]
    ELSE Append(m, [key |-> k, value |-> v])

Keys(m) == [i \in 1..Len(m) |-> m[i].key]

RECURSIVE SelectSeqBy(_, _)
\* Array.prototype.filter on the entries whose key starts with the prefix.
SelectSeqBy(m, prefix) ==
    IF m = << >> THEN << >>
    ELSE LET rest == SelectSeqBy(Tail(m), prefix)
         IN  IF StartsWith(Head(m).key, prefix) THEN <<Head(m)>> \o rest ELSE rest

\* ------------------------------------------------------------ variables
VARIABLES
    fs,             \* the tool directories: directory -> listing
    tmTools,        \* ToolManager.tools (a Map)
    tmInitialized,  \* ToolManager.initialized
    listed,         \* the last registry query and what it returned
    tmLoads,        \* how many times ToolManager's loading loop has run
    tmRepeated,     \* history: initialize() was called on an initialized manager
    mainTools,      \* main.ts: the module-level tools object
    mainLoaded,     \* main.ts: the loading at module load has run
    mcpTools,       \* MCPServer.tools (a Map)
    firstImpl,      \* history: tool id -> the implementation of its first registerTool
    regImpls,       \* history: tool id -> the implementations registered under it
    reqs,           \* the dispatched requests: request id -> its record
    now,            \* the time, in ticks
    maxExecutionTime, \* CoreServer.config.maxExecutionTime, in ticks
    supportedModels, \* provider name -> the adapter's supportedModels
    defaultProvider, \* ProviderSelector.defaultProvider
    calls,          \* history: the selector calls made so far, with their outcomes
    pyCalls,        \* the _sendToPython calls made so far: their promises
    pyStdin,        \* the messages written to the Python process and not yet answered
    pyListeners,    \* the 'data' listeners of pythonProcess.stdout, in registration order
    srvPc,          \* startServer's position: created, initialized, listening or exited
    sseClients,     \* UnifiedServer.sseClients (a Set)
    sseBroken,      \* the SSE clients whose connection is gone, 'close' not yet delivered
    sseHeartbeat,   \* the SSE clients whose heartbeat interval is set
    sseStream,      \* per SSE client: what was written to its response stream
    sseEvents,      \* per SSE client: the last event of its request ("request", "close")
    sseWrites,      \* per request: what the tool_used write to each client came to
    httpResponse,   \* request id -> the response the HTTP caller was sent
    aiAvailable,    \* AITool: the providers the constructor initialized
    aiCalls,        \* the generateResponse calls made: arguments and outcome
    wfPc,           \* the workflow run: idle, running or returned
    wfKind,         \* which workflow runs: patterns or adaptations
    wfActions,      \* the actions argument of the run
    wfCalls,        \* the arguments of the analyze calls made, in order
    wfOut,          \* the run's local array (patterns or adaptations), then its result
    mcState,        \* MetaCognitiveTool.state: patterns, adaptations, metrics
    mcCalls,        \* the analyze calls made on the tool directly, with results
    orPc,           \* the orchestration: idle, running, awaiting, returned or thrown
    orVia,          \* who runs the services: js, ts (mcpIntegratedReasoning) or orchestrator
    orServices,     \* the services argument
    orNext,         \* the index the for loop stands at
    orExecuted,     \* history: the services whose execute was called, in order
    orResult,       \* what the call returned, or the error it threw
    prCalls,        \* PatternRecognitionTool: the analyzePatterns calls made, with results
    wsMsgs,         \* the WebSocket messages of one connection: kind, position, replies sent
    providers,      \* AIProviderConfigManager.providers: name -> models, defaultModel
    cfgFile,        \* the configuration file: whether it exists, and its content
    cfgOps          \* history: the save and load calls made, with state before and after

tmVars == <<fs, tmTools, tmInitialized, listed, tmLoads, tmRepeated>>
mainVars == <<mainTools, mainLoaded>>
mcpVars == <<mcpTools, firstImpl, regImpls>>

reqVars == <<reqs, now, maxExecutionTime>>

selVars == <<supportedModels, defaultProvider, calls>>

pyVars == <<pyCalls, pyStdin, pyListeners>>

srvVars == <<srvPc, sseClients, sseBroken, sseHeartbeat, sseStream, sseEvents, sseWrites,
            httpResponse>>

aiVars == <<aiAvailable, aiCalls>>

wfVars == <<wfPc, wfKind, wfActions, wfCalls, wfOut, mcState, mcCalls>>

orVars == <<orPc, orVia, orServices, orNext, orExecuted, orResult>>

prVars == <<prCalls>>

wsVars == <<wsMsgs>>

cfgVars == <<providers, cfgFile, cfgOps>>

vars == <<tmVars, mainVars, mcpVars, reqVars, selVars, pyVars, srvVars, aiVars, wfVars,
         orVars, prVars, wsVars, cfgVars>>

\* ------------------------------------------------------- ToolManager
\* The tool instance a module yields: new toolModule.default() makes a new object
\* every time it runs, so an instance is identified by its module and by the run
\* of the loading loop that made it.
Tool(dir, file, run) == [dir |-> dir, file |-> file, run |-> run]

\* toolModule.default ? new toolModule.default() : toolModule.  The shape of a
\* module is part of the input: the .ts modules export a default class, of which
\* every run makes a new instance; the others export the tool itself, which
\* require() caches (run 0).
Instantiate(dir, file) ==
    IF EndsWith(file, ExtTs) THEN Tool(dir, file, tmLoads + 1) ELSE Tool(dir, file, 0)

RECURSIVE TMLoadFiles(_, _, _)
\* The files of one category, inside the category's try block: the first module
\* that throws leaves the for loop for the catch, the files after it are not visited.
TMLoadFiles(tools, category, files) ==
    IF files = << >> THEN tools
    ELSE LET f == Head(files)
         IN  IF EndsWith(f.name, ExtJs) \/ EndsWith(f.name, ExtTs)
             THEN IF f.throws
                  THEN tools
                  ELSE TMLoadFiles(
                           Set(tools, category \o Slash \o f.name,
                               Instantiate(category, f.name)),
                           category, Tail(files))
             ELSE TMLoadFiles(tools, category, Tail(files))

RECURSIVE TMLoadCategories(_, _, _)
\* ToolManager.initialize: the loop over Object.values(TOOL_CATEGORIES).
TMLoadCategories(tools, categories, f) ==
    IF categories = << >> THEN tools
    ELSE LET category == Head(categories)
             loaded == IF ExistsSync(f, category)
                       THEN TMLoadFiles(tools, category, f[category])
                       ELSE tools
         IN  TMLoadCategories(loaded, Tail(categories), f)

\* initialize() without the initialized flag: every call loads again.
initializeAgain ==
    IF tmLoads >= 2
    THEN UNCHANGED <<tmTools, tmInitialized, tmLoads>>
    ELSE /\ tmTools' = TMLoadCategories(tmTools, TOOL_CATEGORIES, fs)
         /\ tmLoads' = tmLoads + 1
         /\ tmInitialized' = TRUE

\* ToolManager.initialize(): no await inside, so it runs to completion at once.
initialize ==
    IF tmInitialized
    THEN UNCHANGED <<tmTools, tmInitialized, tmLoads>>
    ELSE /\ tmTools' = TMLoadCategories(tmTools, TOOL_CATEGORIES, fs)
         /\ tmLoads' = tmLoads + 1
         /\ tmInitialized' = TRUE

\* A caller calls ToolManager.initialize().
TMInitialize ==
    /\ initialize
    /\ tmRepeated' = (tmRepeated \/ tmInitialized)
    /\ UNCHANGED <<fs, listed, mainVars, mcpVars, reqVars, selVars, pyVars, srvVars, aiVars, wfVars,
                   orVars, prVars, wsVars, cfgVars>>

\* ToolManager.getToolsByCategory(category): [{path, tool}] of the entries whose
\* key starts with the category.
getToolsByCategory(tools, category) ==
    LET kept == SelectSeqBy(tools, category)
    IN  [i \in 1..Len(kept) |-> [path |-> kept[i].key, tool |-> kept[i].value]]

\* ToolManager.getTool(category, name)
getTool(tools, category, name) == Get(tools, category \o Slash \o name)

\* ToolManager.getAllTools().map(({path}) => path)
getAvailableTools(tools) == Keys(tools)

\* A caller lists a category.
QueryCategories == {sAi, sCode, sCodeAnalysis, sWeb}

TMGetToolsByCategory(category) ==
    /\ listed' = [op |-> "getToolsByCategory", arg |-> category,
                  result |-> getToolsByCategory(tmTools, category)]
    /\ UNCHANGED <<fs, tmTools, tmInitialized, tmLoads, tmRepeated, mainVars, mcpVars, reqVars, selVars, pyVars, srvVars,
                   aiVars, wfVars, orVars, prVars, wsVars, cfgVars>>

\* ------------------------------------------------------- main.ts loader
RECURSIVE MainLoadFiles(_, _, _)
\* loadToolsFromDirectory: each file has its own try block.
MainLoadFiles(tools, directory, files) ==
    IF files = << >> THEN tools
    ELSE LET f == Head(files)
             toolName == Replace(f.name, ToolSuffix, << >>)
         IN  IF EndsWith(f.name, ToolSuffix) /\ ~f.throws
             THEN MainLoadFiles(Set(tools, toolName, Tool(directory, f.name, 1)),
                                directory, Tail(files))
             ELSE MainLoadFiles(tools, directory, Tail(files))

RECURSIVE MainLoadDirectories(_, _, _)
\* Promise.all(toolDirectories.map(loadToolsFromDirectory)): the async function
\* never awaits, so the directories are loaded one after the other, in order.
MainLoadDirectories(tools, directories, f) ==
    IF directories = << >> THEN tools
    ELSE LET directory == Head(directories)
             loaded == IF ExistsSync(f, directory)
                       THEN MainLoadFiles(tools, directory, f[directory])
                       ELSE tools
         IN  MainLoadDirectories(loaded, Tail(directories), f)

MainLoadAll ==
    /\ ~mainLoaded
    /\ mainTools' = MainLoadDirectories(mainTools, toolDirectories, fs)
    /\ mainLoaded' = TRUE
    /\ UNCHANGED <<tmVars, mcpVars, reqVars, selVars, pyVars, srvVars, aiVars, wfVars, orVars, prVars,
                   wsVars, cfgVars>>

\* ------------------------------------------------------- MCPServer
ToolIds == {<<"t", "1">>, <<"t", "2">>}
Impls == {[impl |-> "A"], [impl |-> "B"]}

\* A registration that files every tool under one fixed key.
registerToolOneKey(tools, id, impl) == Set(tools, << >>, impl)

\* MCPServer.registerTool(tool): tools.set(tool.id, tool)
registerTool(tools, id, impl) == Set(tools, id, impl)

RegisterTool(id, impl) ==
    /\ mcpTools' = registerTool(mcpTools, id, impl)
    /\ firstImpl' = IF id \in DOMAIN firstImpl THEN firstImpl
                    ELSE [k \in DOMAIN firstImpl \cup {id} |->
                             IF k = id THEN impl ELSE firstImpl[k]]
    /\ regImpls' = [regImpls EXCEPT ![id] = @ \cup {impl}]
    /\ UNCHANGED <<tmVars, mainVars, reqVars, selVars, pyVars, srvVars, aiVars, wfVars, orVars,
                   prVars, wsVars, cfgVars>>

\* ------------------------------------------------------- requests
ReqIds == 1..NReq

\* An error message: a template's fixed text and the value interpolated into it.
Msg(text, arg) == [text |-> text, arg |-> arg]

NoResult == [how |-> "none"]
Returned(body) == [how |-> "returned", body |-> body]
Thrown(message) == [how |-> "thrown", message |-> message]

\* What an implementation may throw or reject with: an Error with a message
\* (the empty message included), or a value that is no object (null, undefined).
ImplMessages ==
    {Msg("boom", << >>), Msg("", << >>), Msg("No tools found for type: ", sAi)}
ThrownValues ==
    {[type |-> "Error", message |-> m] : m \in ImplMessages} \cup {[type |-> "null"]}
NothingThrown == [type |-> "none"]

\* What an implementation may resolve with.
ImplValues == {"value"}

NewRequest ==
    [via |-> "none", pc |-> "Pending", target |-> << >>, tool |-> << >>,
     invoked |-> 0, thrown |-> NothingThrown, result |-> NoResult,
     impl |-> "none", start |-> 0, timer |-> "none", late |-> FALSE]

Terminal == {"Completed", "Failed", "TimedOut"}

\* A settlement that is not once-only: the last one to arrive wins.
SettleLastWins(rq, pc, result) ==
    [rq EXCEPT !.pc = pc, !.result = result]

\* A promise settles once: the outcome of a request that is still executing is
\* set, the settlement of one that has ended is discarded.
Settle(rq, pc, result) ==
    IF rq.pc = "Executing"
    THEN [rq EXCEPT !.pc = pc, !.result = result]
    ELSE [rq EXCEPT !.late = TRUE]

\* a || b on strings: the empty message is falsy.
OrDefault(message, default) ==
    IF message.text = "" /\ message.arg = << >> THEN default ELSE message

\* ------------------------------------------------------- ToolHandler
sLlmCodeGenerate == <<"l", "l", "m", "_", "c", "o", "d", "e", "_", "g", "e", "n", "e", "r", "a", "t", "e">>
sAnalyzeCode == <<"a", "n", "a", "l", "y", "z", "e", "_", "c", "o", "d", "e">>
sEnhanceDocumentation == <<"e", "n", "h", "a", "n", "c", "e", "_", "d", "o", "c", "u", "m", "e", "n", "t", "a", "t", "i", "o", "n">>
sSuggestImprovements == <<"s", "u", "g", "g", "e", "s", "t", "_", "i", "m", "p", "r", "o", "v", "e", "m", "e", "n", "t", "s">>
sGenerate == <<"g", "e", "n", "e", "r", "a", "t", "e">>
sGeminiGenerate == <<"g", "e", "m", "i", "n", "i", "_", "g", "e", "n", "e", "r", "a", "t", "e">>
sConstructor == <<"c", "o", "n", "s", "t", "r", "u", "c", "t", "o", "r">>
\* String(Object): what a function used as a search string converts to.
sFunctionObject == <<"f", "u", "n", "c", "t", "i", "o", "n", " ", "O", "b", "j", "e", "c", "t", "(", ")", " ", "{", " ", "[", "n", "a", "t", "i", "v", "e", " ", "c", "o", "d", "e", "]", " ", "}">>

\* handleRequest's categoryMap, a plain object: a lookup also finds what
\* Object.prototype holds (constructor is the one modelled).
categoryMap(toolType) ==
    CASE toolType = sLlmCodeGenerate -> sAi
      [] toolType = sAnalyzeCode -> sCodeAnalysis
      [] toolType = sEnhanceDocumentation -> sCode
      [] toolType = sSuggestImprovements -> sCode
      [] toolType = sGenerate -> sAi
      [] toolType = sGeminiGenerate -> sGoogle
      [] toolType = sConstructor -> sFunctionObject
      [] OTHER -> << >>

\* categoryMap[toolType] || toolType
CategoryOf(toolType) ==
    IF categoryMap(toolType) # << >> THEN categoryMap(toolType) ELSE toolType

\* The tool types requests name: categories, legacy names, an empty path
\* segment (POST /v1/tools/) and names of nothing.
ToolTypes == {sAi, sCode, sWeb, sAnalyzeCode, sConstructor, << >>}

\* Requests are numbered in the order they arrive: a request arrives when every
\* request before it has been dispatched or answered.
InOrder(r) ==
    \A q \in ReqIds : q < r => (reqs[q].via # "none" \/ httpResponse[q].status # 0)

\* ToolHandler.handleRequest(toolType, data) up to the call of tool.process:
\* no tool of the category returns the error at once.
HandleRequest(r, toolType) ==
    LET rq == reqs[r]
        category == CategoryOf(toolType)
        tools == getToolsByCategory(tmTools, category)
    IN  /\ rq.pc = "Pending"
        /\ reqs' = [reqs EXCEPT ![r] =
              IF Len(tools) = 0
              THEN [rq EXCEPT !.via = "handler", !.target = toolType, !.start = now,
                              !.pc = "Failed",
                              !.result = Returned([error |->
                                  Msg("No tools found for type: ", toolType)])]
              ELSE [rq EXCEPT !.via = "handler", !.target = toolType, !.start = now,
                              !.pc = "Executing", !.impl = "running",
                              !.tool = tools[1].path,
                              !.invoked = rq.invoked + 1]]
        /\ UNCHANGED <<now, maxExecutionTime, tmVars, mainVars, mcpVars, selVars, pyVars, srvVars,
                   aiVars, wfVars, orVars, prVars, wsVars, cfgVars>>

\* tool.process(data) resolves: handleRequest returns the value.
ProcessResolves(r, v) ==
    /\ reqs[r].via = "handler"
    /\ reqs[r].impl = "running"
    /\ reqs' = [reqs EXCEPT ![r] =
                  Settle([reqs[r] EXCEPT !.impl = "settled"], "Completed", Returned(v))]
    /\ UNCHANGED <<now, maxExecutionTime, tmVars, mainVars, mcpVars, selVars, pyVars, srvVars,
                   aiVars, wfVars, orVars, prVars, wsVars, cfgVars>>

\* handleRequest's catch block: { error: error.message || 'Tool processing failed' };
\* reading .message of null or undefined throws a TypeError out of handleRequest.
HandlerCatch(e) ==
    IF e.type = "Error"
    THEN Returned([error |-> OrDefault(e.message, Msg("Tool processing failed", << >>))])
    ELSE Thrown(Msg("Cannot read properties of null (reading 'message')", << >>))

\* tool.process(data) throws or rejects.
ProcessRejects(r, e) ==
    /\ reqs[r].via = "handler"
    /\ reqs[r].impl = "running"
    /\ reqs' = [reqs EXCEPT ![r] =
                  Settle([reqs[r] EXCEPT !.impl = "settled", !.thrown = e],
                         "Failed", HandlerCatch(e))]
    /\ UNCHANGED <<now, maxExecutionTime, tmVars, mainVars, mcpVars, selVars, pyVars, srvVars,
                   aiVars, wfVars, orVars, prVars, wsVars, cfgVars>>

\* ------------------------------------------------------- MCPServer.invokeTool
\* invokeTool(toolId, params) up to the await of tool.execute: an unknown id
\* throws out of invokeTool.
InvokeTool(r, id) ==
    LET rq == reqs[r]
        tool == Get(mcpTools, id)
    IN  /\ rq.pc = "Pending"
        /\ InOrder(r)
        /\ reqs' = [reqs EXCEPT ![r] =
              IF ~HasKey(mcpTools, id)
              THEN [rq EXCEPT !.via = "mcp", !.target = id, !.start = now,
                              !.pc = "Failed",
                              !.result = Thrown(Msg("Tool not found: ", id))]
              ELSE [rq EXCEPT !.via = "mcp", !.target = id, !.start = now,
                              !.pc = "Executing", !.impl = "running",
                              !.tool = tool,
                              !.invoked = rq.invoked + 1]]
        /\ UNCHANGED <<now, maxExecutionTime, tmVars, mainVars, mcpVars, selVars, pyVars, srvVars,
                   aiVars, wfVars, orVars, prVars, wsVars, cfgVars>>

\* tool.execute(params) resolves: tool_executed is emitted, the result returned.
ExecuteResolves(r, v) ==
    /\ reqs[r].via = "mcp"
    /\ reqs[r].impl = "running"
    /\ reqs' = [reqs EXCEPT ![r] =
                  Settle([reqs[r] EXCEPT !.impl = "settled"], "Completed", Returned(v))]
    /\ UNCHANGED <<now, maxExecutionTime, tmVars, mainVars, mcpVars, selVars, pyVars, srvVars,
                   aiVars, wfVars, orVars, prVars, wsVars, cfgVars>>

\* tool.execute(params) throws or rejects: tool_error is emitted, the error rethrown.
ExecuteRejects(r, e) ==
    /\ reqs[r].via = "mcp"
    /\ reqs[r].impl = "running"
    /\ reqs' = [reqs EXCEPT ![r] =
                  Settle([reqs[r] EXCEPT !.impl = "settled", !.thrown = e],
                         "Failed", [how |-> "thrown", error |-> e])]
    /\ UNCHANGED <<now, maxExecutionTime, tmVars, mainVars, mcpVars, selVars, pyVars, srvVars,
                   aiVars, wfVars, orVars, prVars, wsVars, cfgVars>>

\* ------------------------------------------------------- CoreServer
sLs == <<"l", "s">>
sPwd == <<"p", "w", "d">>
sEcho == <<"e", "c", "h", "o">>
\* (process.env.ALLOWED_COMMANDS || 'ls,pwd,echo').split(',')
allowedCommands == {sLs, sPwd, sEcho}

\* command.split(' ')[0]: the text before the first space.
FirstToken(command) ==
    LET i == IndexOf(command, <<" ">>)
    IN  IF i = 0 THEN command ELSE SubSeq(command, 1, i - 1)

Commands == {<<"l", "s", " ", "-", "l", "a">>, <<"r", "m", " ", "-", "r", "f", " ", "x">>, <<"e", "c", "h", "o", " ", "a", ";", "r", "m", " ", "x">>}

\* exec(command) hands the whole string to the shell, which runs the commands
\* of a ';' list one after the other.
RECURSIVE ShellList(_)
ShellList(command) ==
    LET i == IndexOf(command, <<";">>)
    IN  IF i = 0 THEN {command}
        ELSE {SubSeq(command, 1, i - 1)} \cup ShellList(SubSeq(command, i + 1, Len(command)))

\* The programs the shell starts for a command string.
ShellPrograms(command) == {FirstToken(c) : c \in ShellList(command)}

\* What a failed exec rejects with: an Error with a message and an exit code
\* (0 stands for a code that is null or missing).
ExecErrors ==
    {[message |-> Msg("Command failed: ", << >>), code |-> 2],
     [message |-> Msg("", << >>), code |-> 0]}

\* CoreServer.execute(command) up to the await of the race: a command that is
\* not allowed rejects before anything runs; otherwise exec is started and the
\* timer armed.
Execute(r, command) ==
    LET rq == reqs[r]
        baseCommand == FirstToken(command)
    IN  /\ rq.pc = "Pending"
        /\ InOrder(r)
        /\ reqs' = [reqs EXCEPT ![r] =
              IF baseCommand \notin allowedCommands
              THEN [rq EXCEPT !.via = "core", !.target = command, !.start = now,
                              !.pc = "Failed",
                              !.result = Thrown(Msg("Command '' is not allowed", baseCommand))]
              ELSE [rq EXCEPT !.via = "core", !.target = command, !.start = now,
                              !.pc = "Executing", !.impl = "running",
                              !.tool = baseCommand,
                              !.invoked = rq.invoked + 1,
                              !.timer = "armed"]]
        /\ UNCHANGED <<now, maxExecutionTime, tmVars, mainVars, mcpVars, selVars, pyVars, srvVars,
                   aiVars, wfVars, orVars, prVars, wsVars, cfgVars>>

\* exec finishes with exit code 0.
ExecResolves(r) ==
    /\ reqs[r].via = "core"
    /\ reqs[r].impl = "running"
    /\ reqs' = [reqs EXCEPT ![r] =
          Settle([reqs[r] EXCEPT !.impl = "settled"], "Completed",
                 Returned([stdout |-> "stdout", stderr |-> Msg("", << >>), exitCode |-> 0]))]
    /\ UNCHANGED <<now, maxExecutionTime, tmVars, mainVars, mcpVars, selVars, pyVars, srvVars,
                   aiVars, wfVars, orVars, prVars, wsVars, cfgVars>>

\* execute's catch block.
CoreCatch(e) ==
    Returned([stdout |-> "",
              stderr |-> OrDefault(e.message, Msg("Unknown error occurred", << >>)),
              exitCode |-> IF e.code = 0 THEN 1 ELSE e.code])

\* exec fails.
ExecRejects(r, e) ==
    /\ reqs[r].via = "core"
    /\ reqs[r].impl = "running"
    /\ reqs' = [reqs EXCEPT ![r] =
          Settle([reqs[r] EXCEPT !.impl = "settled",
                                 !.thrown = [type |-> "Error", message |-> e.message]],
                 "Failed", CoreCatch(e))]
    /\ UNCHANGED <<now, maxExecutionTime, tmVars, mainVars, mcpVars, selVars, pyVars, srvVars,
                   aiVars, wfVars, orVars, prVars, wsVars, cfgVars>>

\* The setTimeout callback of the race: it runs once maxExecutionTime has passed
\* since the call, whether or not exec has finished (the timer is never cleared).
TimerFires(r) ==
    /\ reqs[r].timer = "armed"
    /\ now >= reqs[r].start + maxExecutionTime
    /\ reqs' = [reqs EXCEPT ![r] =
          Settle([reqs[r] EXCEPT !.timer = "fired"], "TimedOut",
                 CoreCatch([message |-> Msg("Command execution timed out", << >>),
                            code |-> 0]))]
    /\ UNCHANGED <<now, maxExecutionTime, tmVars, mainVars, mcpVars, selVars, pyVars, srvVars,
                   aiVars, wfVars, orVars, prVars, wsVars, cfgVars>>

\* Time passes.  The event loop runs a timer callback when it is due: the clock
\* does not pass an armed timer's deadline.  The clock is read only while a
\* request is in flight, so time is counted from the first one on.
Tick ==
    /\ now < MaxTimeout + Slack
    /\ \E r \in ReqIds : reqs[r].via # "none"
    /\ \A r \in ReqIds :
          reqs[r].timer = "armed" => now < reqs[r].start + maxExecutionTime
    /\ now' = now + 1
    /\ UNCHANGED <<reqs, maxExecutionTime, tmVars, mainVars, mcpVars, selVars, pyVars, srvVars,
                   aiVars, wfVars, orVars, prVars, wsVars, cfgVars>>

\* ------------------------------------------------------- UnifiedServer
\* Largest number of SSE clients connected at a time.
MaxClients == 2
Clients == 1..MaxClients

NoResponse == [status |-> 0]
Response(status, body) == [status |-> status, body |-> body]

\* A start that does not wait for the initialization: listen at once.
CanListenEarly(pc) == pc \in {"created", "initialized"}

\* startServer: server.listen(port) follows the await of server.initialize().
CanListen(pc) == pc = "initialized"

\* startServer's try block after server.initialize() has settled: a rejection
\* goes to the catch block and process.exit(1).
AfterInitialize(throws) == IF throws THEN "exited" ELSE "initialized"

\* await server.initialize(): toolHandler.initialize() runs
\* ToolManager.initialize(), then the HTTP server (and the WebSocket server) is
\* created; what the try block throws is logged and thrown again.
ServerInitialize(throws) ==
    /\ srvPc = "created"
    /\ initialize
    /\ srvPc' = AfterInitialize(throws)
    /\ UNCHANGED <<fs, listed, tmRepeated, sseClients, sseBroken, sseHeartbeat, sseStream, sseEvents,
                   sseWrites, httpResponse,
                   mainVars, mcpVars, reqVars, selVars, pyVars, aiVars, wfVars, orVars, prVars,
                   wsVars, cfgVars>>

\* server.listen(port)
ServerListen ==
    /\ CanListen(srvPc)
    /\ srvPc' = "listening"
    /\ UNCHANGED <<sseClients, sseBroken, sseHeartbeat, sseStream, sseEvents,
                   sseWrites, httpResponse,
                   tmVars, mainVars, mcpVars, reqVars, selVars, pyVars, aiVars, wfVars, orVars,
                   prVars, wsVars, cfgVars>>

\* POST /v1/tools/<toolType>: the 'end' callback up to the await of
\* toolHandler.handleRequest.  A body that is no JSON is answered 500 at once.
HttpPost(r, toolType, parses) ==
    /\ srvPc = "listening"
    /\ httpResponse[r] = NoResponse
    /\ InOrder(r)
    /\ IF parses
       THEN HandleRequest(r, toolType)
       ELSE /\ reqs[r].pc = "Pending"
            /\ httpResponse' = [httpResponse EXCEPT ![r] =
                  Response(500, [error |-> Msg("Unexpected token", << >>)])]
            /\ UNCHANGED <<srvPc, sseClients, sseBroken, sseHeartbeat, sseStream, sseEvents,
                   sseWrites,
                           tmVars, mainVars, mcpVars, reqVars, selVars, pyVars, aiVars, wfVars,
                           orVars, prVars, wsVars, cfgVars>>

\* Largest number of heartbeat comments written in a run.
MaxBeats == 2

\* What was written to a response stream: the initial tools_list event and
\* the heartbeat comments.
NoStream == [toolsList |-> FALSE, heartbeats |-> 0]

\* handleSSE(req, res): the stream joins sseClients, the heartbeat interval is
\* set, the tools_list event is written, and the 'close' callback is put on the
\* request; nothing in between throws.
handleSSE(clients, heartbeat, c) ==
    [clients |-> clients \cup {c}, heartbeat |-> heartbeat \cup {c}]

\* A 'close' callback that removes the stream and leaves the interval set.
closeCallbackLeak(clients, heartbeat, c) ==
    [clients |-> clients \ {c}, heartbeat |-> heartbeat]

\* The 'close' callback: clearInterval(heartbeat); this.sseClients.delete(res).
closeCallback(clients, heartbeat, c) ==
    [clients |-> clients \ {c}, heartbeat |-> heartbeat \ {c}]

\* GET /v1/sse: handleSSE for a new response stream.  A new client takes the
\* least free number.
SseConnect(c) ==
    /\ srvPc = "listening"
    /\ c \notin sseClients
    /\ \A d \in Clients : d < c => d \in sseClients
    /\ LET after == handleSSE(sseClients, sseHeartbeat, c)
       IN  /\ sseClients' = after.clients
           /\ sseHeartbeat' = after.heartbeat
    /\ sseStream' = [sseStream EXCEPT ![c] = [toolsList |-> TRUE, heartbeats |-> 0]]
    /\ sseEvents' = [sseEvents EXCEPT ![c] = "request"]
    /\ UNCHANGED <<srvPc, sseBroken, sseWrites, httpResponse,
                   tmVars, mainVars, mcpVars, reqVars, selVars, pyVars, aiVars, wfVars, orVars,
                   prVars, wsVars, cfgVars>>

\* An SSE client's connection goes away; the 'close' callback has not run yet,
\* so the response stream is still in sseClients.
SseBreak(c) ==
    /\ c \in sseClients \ sseBroken
    /\ sseBroken' = sseBroken \cup {c}
    /\ UNCHANGED <<srvPc, sseClients, sseHeartbeat, sseStream, sseEvents, sseWrites,
                   httpResponse,
                   tmVars, mainVars, mcpVars, reqVars, selVars, pyVars, aiVars, wfVars, orVars,
                   prVars, wsVars, cfgVars>>

\* The 'close' event of an SSE request.
SseClose(c) ==
    /\ c \in sseBroken
    /\ LET after == closeCallback(sseClients, sseHeartbeat, c)
       IN  /\ sseClients' = after.clients
           /\ sseHeartbeat' = after.heartbeat
    /\ sseBroken' = sseBroken \ {c}
    /\ sseEvents' = [sseEvents EXCEPT ![c] = "close"]
    /\ UNCHANGED <<srvPc, sseStream, sseWrites, httpResponse,
                   tmVars, mainVars, mcpVars, reqVars, selVars, pyVars, aiVars, wfVars, orVars,
                   prVars, wsVars, cfgVars>>

\* The heartbeat comments written so far, over all streams.
RECURSIVE BeatsUpTo(_)
BeatsUpTo(c) == IF c = 0 THEN 0 ELSE sseStream[c].heartbeats + BeatsUpTo(c - 1)
BeatsWritten == BeatsUpTo(MaxClients)

\* The heartbeat interval of an SSE client fires: res.write(':\n\n').
Heartbeat(c) ==
    /\ c \in sseHeartbeat
    /\ BeatsWritten < MaxBeats
    /\ sseStream' = [sseStream EXCEPT ![c].heartbeats = @ + 1]
    /\ UNCHANGED <<srvPc, sseClients, sseBroken, sseHeartbeat, sseEvents, sseWrites,
                   httpResponse,
                   tmVars, mainVars, mcpVars, reqVars, selVars, pyVars, aiVars, wfVars, orVars,
                   prVars, wsVars, cfgVars>>

\* A write that raises in the caller when the stream's connection is gone.
sendSSEEventThrowing(broken) == IF broken THEN "thrown" ELSE "written"

\* sendSSEEvent: client.write(...) twice.  The write of a string to a response
\* stream whose connection is gone returns false and raises nothing in the
\* caller; the event is lost.
sendSSEEvent(broken) == IF broken THEN "lost" ELSE "written"

\* notifySSEClients: sendSSEEvent for each client of the Set.
notifySSEClients(clients, broken) ==
    [c \in Clients |-> IF c \in clients THEN sendSSEEvent(c \in broken) ELSE "none"]

\* The rest of the 'end' callback, after handleRequest has settled:
\* notifySSEClients writes the tool_used event to every client, then the
\* response is written; both are inside the try block, whose catch answers 500
\* with the error's message.
RespondAfter(result, writes) ==
    IF result.how = "thrown" THEN Response(500, [error |-> result.message])
    ELSE IF \E c \in Clients : writes[c] = "thrown"
         THEN Response(500, [error |-> Msg("write failed", << >>)])
    ELSE Response(200, result.body)

HttpRespond(r) ==
    /\ reqs[r].via = "handler"
    /\ reqs[r].pc \in Terminal
    /\ httpResponse[r] = NoResponse
    /\ sseWrites' = [sseWrites EXCEPT ![r] = notifySSEClients(sseClients, sseBroken)]
    /\ httpResponse' = [httpResponse EXCEPT ![r] =
                            RespondAfter(reqs[r].result, sseWrites'[r])]
    /\ UNCHANGED <<srvPc, sseClients, sseBroken, sseHeartbeat, sseStream, sseEvents,
                   tmVars, mainVars, mcpVars, reqVars, selVars, pyVars, aiVars, wfVars, orVars,
                   prVars, wsVars, cfgVars>>

\* The r-th call of notifySSEClients(data), taken by itself.
NotifySSEClients(r) ==
    /\ srvPc = "listening"
    /\ sseWrites[r] = [c \in Clients |-> "none"]
    /\ \A q \in ReqIds : q < r => sseWrites[q] # [c \in Clients |-> "none"]
    /\ sseClients # {}
    /\ sseWrites' = [sseWrites EXCEPT ![r] = notifySSEClients(sseClients, sseBroken)]
    /\ UNCHANGED <<srvPc, sseClients, sseBroken, sseHeartbeat, sseStream, sseEvents,
                   httpResponse,
                   tmVars, mainVars, mcpVars, reqVars, selVars, pyVars, aiVars, wfVars, orVars,
                   prVars, wsVars, cfgVars>>

\* ------------------------------------------------------- ProviderSelector
\* The selector with a Map of providers and a default (predict(input, model)):
\* the constructor's providers.set calls, in order.
providerOrder == <<"anthropic", "openai", "google">>

\* The selector with a plain object of providers (predict(providerName, input,
\* options)): its own keys.
providerKeys == {"anthropic", "google", "openai"}

\* Model names; each adapter's supportedModels is a list of them.  The selectors
\* read the lists and never fix their content: the lists are their input.
Models == {"m1", "m2"}
NoModel == "undefined"
RequestedModels == Models \cup {"m0", NoModel}

\* Provider names callers pass; "undefined" is the omitted name, "constructor"
\* a key every plain object inherits.
RequestedNames == {"anthropic", "openai", "mistral", "undefined", "constructor"}

\* process.env.DEFAULT_AI_PROVIDER || 'anthropic'
DefaultProviders == {"anthropic", "google", "mistral"}

Call(op, arg, model, invoked, thrown) ==
    [op |-> op, arg |-> arg, model |-> model, invoked |-> invoked, thrown |-> thrown]

\* The scan that does not stop at the first match: the last provider supporting
\* the model.
LastSupporting(order, models, model) ==
    LET hits == {i \in 1..Len(order) : model \in models[order[i]]}
    IN  IF hits = {} THEN "none"
        ELSE order[CHOOSE i \in hits : \A j \in hits : j <= i]

RECURSIVE FirstSupporting(_, _, _)
\* for (const [name, provider] of this.providers): the first provider, in the
\* Map's order, whose supportedModels includes the model; "none" when the loop ends.
FirstSupporting(order, models, model) ==
    IF order = << >> THEN "none"
    ELSE IF model \in models[Head(order)] THEN Head(order)
         ELSE FirstSupporting(Tail(order), models, model)

\* ProviderSelector.predict(input, model), Map variant: the provider invoked and
\* the options it is given, or the error predict rejects with (every error thrown
\* inside is replaced by 'Failed to generate prediction').
predictTry(model) ==
    IF model # NoModel
    THEN LET name == FirstSupporting(providerOrder, supportedModels, model)
         IN  IF name # "none"
             THEN Call("predict", model, model, name, "")
             ELSE Call("predict", model, model, "none", "No provider found for model")
    ELSE IF \E i \in 1..Len(providerOrder) : providerOrder[i] = defaultProvider
         THEN Call("predict", model, NoModel, defaultProvider, "")
         ELSE Call("predict", model, NoModel, "none", "Default provider not found")

\* predict's catch block: throw new Error('Failed to generate prediction').
predictCatch(call) ==
    IF call.thrown # "" THEN [call EXCEPT !.thrown = "Failed to generate prediction"]
    ELSE call

predictByModel(model) == predictCatch(predictTry(model))

PredictByModel(model) ==
    /\ Len(calls) < MaxCalls
    /\ calls' = Append(calls, predictByModel(model))
    /\ UNCHANGED <<supportedModels, defaultProvider, tmVars, mainVars, mcpVars, reqVars, pyVars, srvVars,
                   aiVars, wfVars, orVars, prVars, wsVars, cfgVars>>

\* ProviderSelector.getProvider(providerName), plain-object variant:
\* this.providers[providerName] finds own keys and what Object.prototype holds.
getProvider(name) ==
    IF name \in providerKeys THEN [found |-> TRUE, provider |-> name]
    ELSE IF name = "constructor" THEN [found |-> TRUE, provider |-> "Object"]
    ELSE [found |-> FALSE, provider |-> "none"]

\* ProviderSelector.predict(providerName, input, options), plain-object variant.
predictByName(name, model) ==
    LET got == getProvider(name)
    IN  IF ~got.found
        THEN Call("predictByName", name, model, "none", "Provider not found")
        ELSE IF got.provider \in providerKeys
        THEN Call("predictByName", name, model, got.provider, "")
        ELSE Call("predictByName", name, model, "none", "provider.predict is not a function")

\* A caller calls getProvider(providerName) of the plain-object variant.
GetProvider(name) ==
    /\ Len(calls) < MaxCalls
    /\ calls' = Append(calls,
          LET got == getProvider(name)
          IN  Call("getProvider", name, NoModel, got.provider,
                   IF got.found THEN "" ELSE "Provider not found"))
    /\ UNCHANGED <<supportedModels, defaultProvider,
                   tmVars, mainVars, mcpVars, reqVars, pyVars, srvVars, aiVars, wfVars, orVars,
                   prVars, wsVars, cfgVars>>

PredictByName(name, model) ==
    /\ Len(calls) < MaxCalls
    /\ calls' = Append(calls, predictByName(name, model))
    /\ UNCHANGED <<supportedModels, defaultProvider, tmVars, mainVars, mcpVars, reqVars, pyVars, srvVars,
                   aiVars, wfVars, orVars, prVars, wsVars, cfgVars>>

\* ------------------------------------------------------- Python bridge
\* IntegratedAITool._sendToPython(data) (and _processThroughIntegration, the same
\* code): the message is written to the Python process' stdin and a listener of
\* its own is added to stdout's 'data' event.  The call is named by its position
\* among the calls; the Python process answers its input in order.
SendToPython ==
    /\ Len(pyCalls) < MaxSends
    /\ LET k == Len(pyCalls) + 1
       IN  /\ pyCalls' = Append(pyCalls, [state |-> "pending", response |-> 0])
           /\ pyStdin' = Append(pyStdin, k)
           /\ pyListeners' = Append(pyListeners, k)
    /\ UNCHANGED <<tmVars, mainVars, mcpVars, reqVars, selVars, srvVars, aiVars, wfVars, orVars,
                   prVars, wsVars, cfgVars>>

\* A promise settles once.
PySettle(call, state, response) ==
    IF call.state = "pending" THEN [state |-> state, response |-> response] ELSE call

\* The handler of call k runs on a chunk: a chunk that parses resolves the call
\* with it, one that does not rejects the call.
Handler(call, parses, response) ==
    IF parses THEN PySettle(call, "resolved", response)
    ELSE PySettle(call, "rejected", 0)

\* emit('data', chunk): every listener registered at that time is called with
\* the chunk.
EmitData(cs, listeners, parses, response) ==
    [k \in 1..Len(cs) |->
        IF \E i \in 1..Len(listeners) : listeners[i] = k
        THEN Handler(cs[k], parses, response)
        ELSE cs[k]]

\* stdout delivers the Python process' answer to the oldest unanswered message:
\* each handler that parses it removes itself.
StdoutReply ==
    /\ pyStdin # << >>
    /\ pyCalls' = EmitData(pyCalls, pyListeners, TRUE, Head(pyStdin))
    /\ pyStdin' = Tail(pyStdin)
    /\ pyListeners' = << >>
    /\ UNCHANGED <<tmVars, mainVars, mcpVars, reqVars, selVars, srvVars, aiVars, wfVars, orVars,
                   prVars, wsVars, cfgVars>>

\* stdout delivers a chunk that is no JSON document (a log line, a part of an
\* answer): JSON.parse throws before removeListener, the listeners stay.
StdoutGarbage ==
    /\ pyListeners # << >>
    /\ \E k \in 1..Len(pyCalls) : pyCalls[k].state = "pending"
    /\ pyCalls' = EmitData(pyCalls, pyListeners, FALSE, 0)
    /\ UNCHANGED <<pyStdin, pyListeners, tmVars, mainVars, mcpVars, reqVars, selVars, srvVars,
                   aiVars, wfVars, orVars, prVars, wsVars, cfgVars>>

\* ------------------------------------------------------- idle parts
\* Each specification below runs one part of the repository; the state of the
\* parts it does not run stays as constructed.
TmIdle ==
    /\ fs = [d \in {} |-> << >>]
    /\ tmTools = << >>
    /\ tmInitialized = FALSE
    /\ listed = [op |-> "none", arg |-> << >>, result |-> << >>]
    /\ tmLoads = 0
    /\ tmRepeated = FALSE

MainIdle ==
    /\ mainTools = << >>
    /\ mainLoaded = FALSE

McpIdle ==
    /\ mcpTools = << >>
    /\ firstImpl = << >>
    /\ regImpls = [id \in ToolIds |-> {}]

ReqIdle ==
    /\ reqs = [r \in ReqIds |-> NewRequest]
    /\ now = 0
    /\ maxExecutionTime = 1

SelIdle ==
    /\ supportedModels = [p \in providerKeys |-> {}]
    /\ defaultProvider = "anthropic"
    /\ calls = << >>

PyIdle ==
    /\ pyCalls = << >>
    /\ pyStdin = << >>
    /\ pyListeners = << >>

SrvIdle ==
    /\ srvPc = "created"
    /\ sseClients = {}
    /\ sseBroken = {}
    /\ sseHeartbeat = {}
    /\ sseStream = [c \in Clients |-> NoStream]
    /\ sseEvents = [c \in Clients |-> "none"]
    /\ sseWrites = [r \in ReqIds |-> [c \in Clients |-> "none"]]
    /\ httpResponse = [r \in ReqIds |-> NoResponse]

\* ------------------------------------------------------- AITool
\* Largest number of generateResponse calls.
MaxAiCalls == 2

\* The providers the constructor can initialize, one per API key of the
\* environment.
AiProviders == {"openai", "anthropic", "google"}

\* Provider arguments callers pass: "undefined" is the omitted argument,
\* "availableProviders" the name of another own property of the tool.
AiRequested == AiProviders \cup {"undefined", "invalid-provider", "availableProviders"}

\* Prompts, as strings of characters.
Prompts == {<< >>, <<" ">>, <<"h", "i">>, <<" ", "h", "i", " ">>}

RECURSIVE TrimStart(_)
TrimStart(str) ==
    IF str # << >> /\ Head(str) = " " THEN TrimStart(Tail(str)) ELSE str

RECURSIVE TrimEnd(_)
TrimEnd(str) ==
    IF str # << >> /\ str[Len(str)] = " " THEN TrimEnd(SubSeq(str, 1, Len(str) - 1)) ELSE str

\* String.prototype.trim
Trim(str) == TrimEnd(TrimStart(str))

\* The destructuring default: provider = 'anthropic'.
ProviderOrDefault(provider) == IF provider = "undefined" THEN "anthropic" ELSE provider

\* this[provider]: the client a constructor branch stored, or any other
\* property of the tool under that name.
Initialized(available, provider) ==
    provider \in available \/ provider = "availableProviders"

AiThrown(message) ==
    [thrown |-> message, success |-> FALSE, error |-> "", text |-> << >>, provider |-> "undefined"]

AiFailure(error) ==
    [thrown |-> "", success |-> FALSE, error |-> error, text |-> << >>, provider |-> "undefined"]

AiSuccess(text, provider) ==
    [thrown |-> "", success |-> TRUE, error |-> "", text |-> text, provider |-> provider]

\* AITool.generateResponse({ prompt, provider = 'anthropic' })
generateResponse(available, prompt, provider) ==
    LET p == ProviderOrDefault(provider)
    IN  IF ~Initialized(available, p) THEN AiThrown("Provider not initialized.")
        ELSE IF Trim(prompt) = << >> THEN AiFailure("Prompt cannot be empty")
        ELSE AiSuccess(prompt, p)

\* A caller calls aiTool.generateResponse.
GenerateResponse(prompt, provider) ==
    /\ Len(aiCalls) < MaxAiCalls
    /\ aiCalls' = Append(aiCalls, [prompt |-> prompt, provider |-> provider,
                                   result |-> generateResponse(aiAvailable, prompt, provider)])
    /\ UNCHANGED <<aiAvailable, tmVars, mainVars, mcpVars, reqVars, selVars, pyVars,
                   srvVars, wfVars, orVars, prVars, wsVars, cfgVars>>

AiIdle ==
    /\ aiAvailable = {"anthropic"}
    /\ aiCalls = << >>

\* ------------------------------------------------------- WorkflowManager
\* Largest number of actions a workflow is run on.
MaxActions == 4

ActionNames == {"click", "take_screenshot"}

\* process.memoryUsage().heapUsed in MB, and the duration of an analyze call in
\* ms, as collectMetrics reads them: a low and a high value of each.
Memories == {100, 800}
Durations == {10, 2000}

\* recognizePatterns: if (avgMemory > 500)
MemoryPatternThreshold == 500
\* computeAdaptations: if (avgDuration > 1000)
DurationThreshold == 1000
\* computeAdaptations: this.config.adaptation.threshold * 1000, threshold 0.7
AdaptationThreshold == 700

\* Array.prototype.slice(-n)
SliceLast(arr, n) ==
    IF Len(arr) <= n THEN arr ELSE SubSeq(arr, Len(arr) - n + 1, Len(arr))

RECURSIVE SumMemory(_)
SumMemory(metrics) ==
    IF metrics = << >> THEN 0 ELSE Head(metrics).memory + SumMemory(Tail(metrics))

RECURSIVE SumDuration(_)
SumDuration(metrics) ==
    IF metrics = << >> THEN 0 ELSE Head(metrics).duration_ms + SumDuration(Tail(metrics))

\* new MetaCognitiveState()
NewState == [patterns |-> << >>, adaptations |-> << >>, metrics |-> << >>]

\* An entry of state.patterns or state.adaptations; the timestamp is the
\* ordinal of the analyze call that added it.
Entry(type, action, value) == [type |-> type, action |-> action, value |-> value]

Stamped(entries, stamp) ==
    [i \in 1..Len(entries) |->
        [type |-> entries[i].type, action |-> entries[i].action,
         value |-> entries[i].value, timestamp |-> stamp]]

\* MetaCognitiveTool.recognizePatterns(data): an average over k metrics exceeds
\* a threshold when their sum exceeds k times the threshold.
recognizePatterns(state, action) ==
    LET recentActions == SliceLast(state.metrics, 5)
        repeatedActions ==
            Cardinality({i \in 1..Len(recentActions) : recentActions[i].action = action})
        recentMetrics == SliceLast(state.metrics, 3)
    IN  (IF Len(recentActions) > 0 /\ repeatedActions >= 2
         THEN <<Entry("repeated_action", action, repeatedActions + 1)>> ELSE << >>)
        \o
        (IF Len(state.metrics) > 0
            /\ SumMemory(recentMetrics) > MemoryPatternThreshold * Len(recentMetrics)
         THEN <<Entry("high_memory_usage", "", SumMemory(recentMetrics))>> ELSE << >>)

\* MetaCognitiveTool.computeAdaptations
computeAdaptations(state) ==
    LET recentMetrics == SliceLast(state.metrics, 3)
    IN  IF Len(state.metrics) > 0
        THEN (IF SumDuration(recentMetrics) > DurationThreshold * Len(recentMetrics)
              THEN <<Entry("performance_optimization", "", SumDuration(recentMetrics))>>
              ELSE << >>)
             \o
             (IF SumMemory(recentMetrics) > AdaptationThreshold * Len(recentMetrics)
              THEN <<Entry("resource_optimization", "", SumMemory(recentMetrics))>>
              ELSE << >>)
        ELSE << >>

\* MetaCognitiveTool.analyze(data): the state after the call, which is also the
\* state the result reports (getState returns the state's own arrays).
analyze(state, action, memory, duration) ==
    LET stamp == Len(state.metrics) + 1
        s1 == [state EXCEPT !.patterns = @ \o Stamped(recognizePatterns(state, action), stamp)]
        s2 == [s1 EXCEPT !.metrics = Append(@, [action |-> action, memory |-> memory,
                                                 duration_ms |-> duration, timestamp |-> stamp])]
    IN  [s2 EXCEPT !.adaptations = @ \o Stamped(computeAdaptations(s2), stamp)]

\* What a workflow collects from the state an analyze call reports.
Collected(kind, state) == IF kind = "patterns" THEN state.patterns ELSE state.adaptations

\* runPatternRecognitionWorkflow(actions) or runAdaptiveExecutionWorkflow(actions)
\* is called on a new WorkflowManager.
WorkflowStart(kind, actions) ==
    /\ wfPc = "idle"
    /\ wfPc' = "running"
    /\ wfKind' = kind
    /\ wfActions' = actions
    /\ UNCHANGED <<wfCalls, wfOut, mcState, mcCalls, tmVars, mainVars, mcpVars, reqVars, selVars,
                   pyVars, srvVars, aiVars, orVars, prVars, wsVars, cfgVars>>

\* One turn of the for loop: await analyze(action), then push every entry of
\* the reported list.
WorkflowStep(memory, duration) ==
    /\ wfPc = "running"
    /\ Len(wfCalls) < Len(wfActions)
    /\ LET action == wfActions[Len(wfCalls) + 1]
           state == analyze(mcState, action, memory, duration)
       IN  /\ mcState' = state
           /\ wfCalls' = Append(wfCalls, action)
           /\ wfOut' = wfOut \o Collected(wfKind, state)
    /\ UNCHANGED <<wfPc, wfKind, wfActions, mcCalls, tmVars, mainVars, mcpVars, reqVars, selVars,
                   pyVars, srvVars, aiVars, orVars, prVars, wsVars, cfgVars>>

\* The loop is over: return patterns (or adaptations).
WorkflowReturn ==
    /\ wfPc = "running"
    /\ Len(wfCalls) = Len(wfActions)
    /\ wfPc' = "returned"
    /\ UNCHANGED <<wfKind, wfActions, wfCalls, wfOut, mcState, mcCalls, tmVars, mainVars, mcpVars,
                   reqVars, selVars, pyVars, srvVars, aiVars, orVars, prVars, wsVars, cfgVars>>

\* Largest number of analyze calls made on the tool directly.
MaxAnalyses == 3

\* The data argument of a direct call: an action, or null.
AnalyzeData == ActionNames \cup {"null"}

\* What the try block of analyze throws: recognizePatterns reads data.action
\* first, a TypeError on null, before the state is touched.
AnalyzeThrows(data) ==
    IF data = "null" THEN "Cannot read properties of null (reading 'action')" ELSE ""

\* A catch block that throws the error again.
analyzeCatchRethrow(message, state) ==
    [threw |-> TRUE, success |-> FALSE, error |-> message, state |-> state]

\* analyze's catch block: return { success: false, error: error.message,
\* state: this.state.getState() }.
analyzeCatch(message, state) ==
    [threw |-> FALSE, success |-> FALSE, error |-> message, state |-> state]

\* analyze(data) as a caller sees it: the result, whose state is the tool's
\* state after the call.
analyzeResult(state, data, memory, duration) ==
    IF AnalyzeThrows(data) # "" THEN analyzeCatch(AnalyzeThrows(data), state)
    ELSE [threw |-> FALSE, success |-> TRUE, error |-> "",
          state |-> analyze(state, data, memory, duration)]

\* A caller calls tool.analyze(data).
MetaAnalyze(data, memory, duration) ==
    /\ Len(mcCalls) < MaxAnalyses
    /\ LET result == analyzeResult(mcState, data, memory, duration)
       IN  /\ mcCalls' = Append(mcCalls, [data |-> data, before |-> mcState, result |-> result])
           /\ mcState' = result.state
    /\ UNCHANGED <<wfPc, wfKind, wfActions, wfCalls, wfOut, tmVars, mainVars, mcpVars,
                   reqVars, selVars, pyVars, srvVars, aiVars, orVars, prVars, wsVars, cfgVars>>

WfIdle ==
    /\ wfPc = "idle"
    /\ wfKind = "patterns"
    /\ wfActions = << >>
    /\ wfCalls = << >>
    /\ wfOut = << >>
    /\ mcState = NewState
    /\ mcCalls = << >>

\* ------------------------------------------------------- MCP services
\* Largest number of services in a list.
MaxServices == 2

\* A service: its type, and whether its execute rejects.
ServiceTypes == {"developer", "computercontroller", "qa"}
Services == [type : ServiceTypes, fails : BOOLEAN]

\* mcpIntegratedReasoning exists in two files, and orchestrateMCPServices is
\* the third loop over a list of services.
Runners == {"js", "ts", "orchestrator"}

OrError(message, at) == [error |-> message, at |-> at]

\* What the loop body does with a service before any await.  The JavaScript
\* mcpIntegratedReasoning names the identifiers developer and
\* computercontroller, which no statement of its file declares: evaluating
\* either is a ReferenceError; a service of any other type is passed over.  The
\* other two loops call service.execute(response).
LoopBody(via, service) ==
    IF via = "js"
    THEN IF service.type \in {"developer", "computercontroller"} THEN "ReferenceError" ELSE "skip"
    ELSE "execute"

\* A loop that swallows the rejection of execute and goes on.
AfterExecuteSwallowed(fails) == "running"

\* await service.execute(response): a rejection leaves the loop (the
\* orchestrator's catch logs it and throws it again).
AfterExecute(fails) == IF fails THEN "thrown" ELSE "running"

\* The call: mcpIntegratedReasoning awaits the model's response first, and the
\* model call may reject; orchestrateMCPServices is handed the response.
OrStart(via, services, modelFails) ==
    /\ orPc = "idle"
    /\ orVia' = via
    /\ orServices' = services
    /\ orNext' = 1
    /\ IF modelFails /\ via # "orchestrator"
       THEN orPc' = "thrown" /\ orResult' = OrError("model call failed", 0)
       ELSE orPc' = "running" /\ UNCHANGED orResult
    /\ UNCHANGED <<orExecuted, tmVars, mainVars, mcpVars, reqVars, selVars, pyVars,
                   srvVars, aiVars, wfVars, prVars, wsVars, cfgVars>>

\* One turn of the for loop up to its await.
OrCall ==
    /\ orPc = "running"
    /\ orNext <= Len(orServices)
    /\ LET body == LoopBody(orVia, orServices[orNext])
       IN  /\ orPc' = CASE body = "execute" -> "awaiting"
                        [] body = "skip" -> "running"
                        [] OTHER -> "thrown"
           /\ orNext' = IF body = "skip" THEN orNext + 1 ELSE orNext
           /\ orExecuted' = IF body = "execute" THEN Append(orExecuted, orNext) ELSE orExecuted
           /\ orResult' = IF body = "ReferenceError"
                          THEN OrError("developer is not defined", orNext) ELSE orResult
    /\ UNCHANGED <<orVia, orServices, tmVars, mainVars, mcpVars, reqVars, selVars, pyVars,
                   srvVars, aiVars, wfVars, prVars, wsVars, cfgVars>>

\* The awaited execute settles.
OrSettle ==
    /\ orPc = "awaiting"
    /\ orPc' = AfterExecute(orServices[orNext].fails)
    /\ IF orPc' = "thrown"
       THEN orResult' = OrError("execute failed", orNext) /\ UNCHANGED orNext
       ELSE orNext' = orNext + 1 /\ UNCHANGED orResult
    /\ UNCHANGED <<orVia, orServices, orExecuted, tmVars, mainVars, mcpVars, reqVars,
                   selVars, pyVars, srvVars, aiVars, wfVars, prVars, wsVars, cfgVars>>

\* The loop is over: mcpIntegratedReasoning returns { success: true, response,
\* mcpServicesProcessed: mcpServices.length }, the orchestrator returns nothing.
OrReturn ==
    /\ orPc = "running"
    /\ orNext > Len(orServices)
    /\ orPc' = "returned"
    /\ orResult' = IF orVia = "orchestrator" THEN [undefined |-> TRUE]
                   ELSE [success |-> TRUE, mcpServicesProcessed |-> Len(orServices)]
    /\ UNCHANGED <<orVia, orServices, orNext, orExecuted, tmVars, mainVars, mcpVars,
                   reqVars, selVars, pyVars, srvVars, aiVars, wfVars, prVars, wsVars, cfgVars>>

OrIdle ==
    /\ orPc = "idle"
    /\ orVia = "js"
    /\ orServices = << >>
    /\ orNext = 1
    /\ orExecuted = << >>
    /\ orResult = [undefined |-> TRUE]

\* ------------------------------------------------------- PatternRecognitionTool
\* Largest number of analyzePatterns calls, and of items in an array argument.
MaxPrCalls == 2
MaxItems == 3

\* The data argument: null, undefined, a number, an array of numbers, or an
\* object that contains itself.
Numbers == {1, 2}
PrData ==
    {[kind |-> "null"], [kind |-> "undefined"], [kind |-> "cyclic"]}
    \cup {[kind |-> "number", value |-> n] : n \in Numbers}
    \cup {[kind |-> "array", items |-> a] : a \in UNION {[1..k -> Numbers] : k \in 0..MaxItems}}

\* config.minPatternLength and config.maxPatternLength
minPatternLength == 2
maxPatternLength == 10

Min(a, b) == IF a < b THEN a ELSE b

RECURSIVE Sum(_)
Sum(numbers) == IF numbers = << >> THEN 0 ELSE Head(numbers) + Sum(Tail(numbers))

\* isConstant on the differences of a window of numbers
ConstantDiffs(window) ==
    \A i \in 2..Len(window) : window[i] - window[i - 1] = window[2] - window[1]

\* analyzeWindow: a window of numbers with constant differences is an
\* arithmetic pattern; otherwise a repetition when its distinct elements are
\* fewer than half its length.
analyzeWindow(window) ==
    IF Len(window) < 2 THEN "null"
    ELSE IF ConstantDiffs(window) THEN "arithmetic"
    ELSE IF 2 * Cardinality({window[i] : i \in 1..Len(window)}) < Len(window) THEN "repetition"
    ELSE "null"

PrPattern(type, pattern, position, length) ==
    [type |-> type, pattern |-> pattern, position |-> position, length |-> length]

RECURSIVE WindowsFrom(_, _, _)
\* findSequencePatterns' inner loop, from position i (0-based) on.
WindowsFrom(array, windowSize, i) ==
    IF i > Len(array) - windowSize THEN << >>
    ELSE LET pattern == analyzeWindow(SubSeq(array, i + 1, i + windowSize))
         IN  (IF pattern # "null" THEN <<PrPattern("sequence", pattern, i, windowSize)>> ELSE << >>)
             \o WindowsFrom(array, windowSize, i + 1)

RECURSIVE findSequencePatternsFrom(_, _)
findSequencePatternsFrom(array, windowSize) ==
    IF windowSize > Min(maxPatternLength, Len(array)) THEN << >>
    ELSE WindowsFrom(array, windowSize, 0) \o findSequencePatternsFrom(array, windowSize + 1)

findSequencePatterns(array) == findSequencePatternsFrom(array, minPatternLength)

\* findStructurePatterns on an array of numbers: mapStructure gives every index
\* the type 'number', and a type counted more than once is a pattern.
findStructurePatterns(array) ==
    IF Len(array) > 1 THEN <<PrPattern("structure", "number", 0, Len(array))>> ELSE << >>

\* extractValues: the leaves of the data; null and undefined are leaves.
Leaf(typeof, value) == [typeof |-> typeof, value |-> value]

extractValues(data) ==
    CASE data.kind = "array" -> [i \in 1..Len(data.items) |-> Leaf("number", data.items[i])]
      [] data.kind = "number" -> <<Leaf("number", data.value)>>
      [] data.kind = "null" -> <<Leaf("object", 0)>>
      [] OTHER -> <<Leaf("undefined", 0)>>

\* findValuePatterns: stdDev < mean * 0.1 on k numbers of sum s and sum of
\* squares q is 100 * (k * q - s * s) < s * s.
findValuePatterns(data) ==
    LET values == extractValues(data)
        numbers == SelectSeq(values, LAMBDA v : v.typeof = "number")
        k == Len(numbers)
        s == Sum([i \in 1..k |-> numbers[i].value])
        q == Sum([i \in 1..k |-> numbers[i].value * numbers[i].value])
    IN  IF k > 1 /\ 100 * (k * q - s * s) < s * s
        THEN <<PrPattern("value", "consistent_range", 0, k)>> ELSE << >>

\* detectPatterns
detectPatterns(data) ==
    (IF data.kind = "array" THEN findSequencePatterns(data.items) ELSE << >>)
    \o (IF data.kind = "array" THEN findStructurePatterns(data.items) ELSE << >>)
    \o findValuePatterns(data)

\* What the try block of analyzePatterns throws: the recursion of
\* findStructurePatterns and extractValues does not end on an object that
\* contains itself; nothing else throws.
PrThrows(data) == IF data.kind = "cyclic" THEN "Maximum call stack size exceeded" ELSE ""

\* analyzePatterns(data): the result, given the length of patternHistory.
analyzePatterns(data, history) ==
    IF PrThrows(data) # ""
    THEN [success |-> FALSE, error |-> PrThrows(data), patterns |-> << >>, history |-> 0]
    ELSE [success |-> TRUE, error |-> "undefined", patterns |-> detectPatterns(data),
          history |-> Min(history + 1, 5)]

\* The entries of patternHistory: one per call that succeeded.
HistoryLength(prior) == Cardinality({i \in 1..Len(prior) : prior[i].result.success})

\* A caller calls analyzePatterns(data).
AnalyzePatterns(data) ==
    /\ Len(prCalls) < MaxPrCalls
    /\ prCalls' = Append(prCalls, [data |-> data,
                                   result |-> analyzePatterns(data, HistoryLength(prCalls))])
    /\ UNCHANGED <<tmVars, mainVars, mcpVars, reqVars, selVars, pyVars, srvVars, aiVars,
                   wfVars, orVars, wsVars, cfgVars>>

PrIdle == prCalls = << >>

\* ------------------------------------------------------- WebSocket messages
\* Largest number of messages received on the connection.
MaxMessages == 3
MsgIds == 1..MaxMessages

\* What a message is: no JSON; the JSON null; a tool_request with or without a
\* payload; list_tools; an object of another type; an object with no type.
MessageKinds ==
    {"garbage", "null", "tool_request", "tool_request_no_payload", "list_tools", "ping",
     "undefined"}

\* How the awaited toolHandler.handleRequest settles: it resolves with a value,
\* resolves with a value JSON.stringify cannot write, or rejects.
ToolOutcomes == {"resolved", "unserializable", "rejected"}

\* The type the message's JSON carries.
TypeOf(kind) == IF kind = "tool_request_no_payload" THEN "tool_request" ELSE kind

\* The try block up to its first await, if any: JSON.parse and the
\* destructuring throw on what is no JSON object, payload.tool throws without
\* a payload, and a tool_request awaits the handler.
BeforeAwait(kind) ==
    CASE kind \in {"garbage", "null", "tool_request_no_payload"} -> "throws"
      [] kind = "tool_request" -> "awaits"
      [] OTHER -> "sends"

\* The rest of the try block: ws.send(JSON.stringify({ type: `${type}_response`,
\* payload: response })) is its last statement, so what throws, throws before
\* anything was sent.
TryBlock(kind, outcome) ==
    IF BeforeAwait(kind) = "throws" \/ (BeforeAwait(kind) = "awaits" /\ outcome # "resolved")
    THEN [sent |-> << >>, thrown |-> TRUE]
    ELSE [sent |-> <<[type |-> "_response", of |-> TypeOf(kind),
                     unknown |-> TypeOf(kind) \notin {"tool_request", "list_tools"}]>>,
          thrown |-> FALSE]

\* A handler that sends the error message whatever the try block did.
CatchBlockAlways(thrown) == <<[type |-> "error", of |-> "", unknown |-> FALSE]>>

\* The catch block: ws.send of a message of type 'error'.
CatchBlock(thrown) ==
    IF thrown THEN <<[type |-> "error", of |-> "", unknown |-> FALSE]>> ELSE << >>

Replies(kind, outcome) ==
    TryBlock(kind, outcome).sent \o CatchBlock(TryBlock(kind, outcome).thrown)

\* ws.on('message'): the callback up to its await, or to its end.
WsMessage(m, kind) ==
    /\ wsMsgs[m].pc = "none"
    /\ \A q \in MsgIds : q < m => wsMsgs[q].pc # "none"
    /\ wsMsgs' = [wsMsgs EXCEPT ![m] =
          IF BeforeAwait(kind) = "awaits"
          THEN [kind |-> kind, pc |-> "awaiting", replies |-> << >>]
          ELSE [kind |-> kind, pc |-> "done", replies |-> Replies(kind, "resolved")]]
    /\ UNCHANGED <<tmVars, mainVars, mcpVars, reqVars, selVars, pyVars, srvVars, aiVars,
                   wfVars, orVars, prVars, cfgVars>>

\* The awaited handleRequest settles and the callback runs to its end.
WsToolSettles(m, outcome) ==
    /\ wsMsgs[m].pc = "awaiting"
    /\ wsMsgs' = [wsMsgs EXCEPT ![m].pc = "done",
                                ![m].replies = @ \o Replies(wsMsgs[m].kind, outcome)]
    /\ UNCHANGED <<tmVars, mainVars, mcpVars, reqVars, selVars, pyVars, srvVars, aiVars,
                   wfVars, orVars, prVars, cfgVars>>

WsIdle == wsMsgs = [m \in MsgIds |-> [kind |-> "none", pc |-> "none", replies |-> << >>]]

\* ------------------------------------------------------- AIProviderConfigManager
\* Largest number of saveConfiguration and loadConfiguration calls.
MaxCfgOps == 2

\* The constructor's providers (capabilities are never read by the code
\* modelled here).
DefaultConfiguration ==
    [anthropic |-> [models |-> <<"claude-3-opus-20240229", "claude-3-sonnet-20240229",
                                "claude-3-haiku-20240307">>,
                    defaultModel |-> "claude-3-sonnet-20240229"],
     openai |-> [models |-> <<"gpt-4-turbo", "gpt-4", "gpt-3.5-turbo">>,
                 defaultModel |-> "gpt-4-turbo"],
     google |-> [models |-> <<"gemini-pro", "gemini-ultra">>,
                 defaultModel |-> "gemini-pro"]]

\* A configuration object with one provider key: its models property (absent,
\* an array, or a value that is no array) and its defaultModel property ("" is
\* the absent property).
ProviderConfig(provider, hasModels, isArray, models, defaultModel) ==
    [provider |-> provider, hasModels |-> hasModels, isArray |-> isArray,
     models |-> models, defaultModel |-> defaultModel]

ConfigsOf(provider) ==
    {ProviderConfig(provider, FALSE, FALSE, << >>, d) : d \in {"", "x", "gpt-4"}}
    \cup {ProviderConfig(provider, TRUE, TRUE, <<"x", "y">>, d) : d \in {"", "x", "gpt-4"}}
    \cup {ProviderConfig(provider, TRUE, FALSE, << >>, d) : d \in {"", "x"}}

\* The arguments of saveConfiguration: for a provider the manager has, and for
\* one it has not.
NewConfigs == ConfigsOf("openai") \cup ConfigsOf("mistral")

\* What the configuration file holds before the manager writes it: nothing, or
\* what a user wrote for a provider.
NoFile == [exists |-> FALSE]
UserFiles ==
    {NoFile} \cup {[exists |-> TRUE, saved |-> FALSE, config |-> c] :
                      c \in {c \in ConfigsOf("openai") : c.isArray \/ ~c.hasModels}}

Includes(array, item) == \E i \in 1..Len(array) : array[i] = item

\* validateConfiguration: the message of the error it throws, or "".
validateConfiguration(current, config) ==
    IF config.provider \notin DOMAIN current THEN "Invalid provider"
    ELSE IF config.hasModels /\ ~config.isArray THEN "Models must be an array"
    ELSE IF config.defaultModel # ""
            /\ ~(config.hasModels /\ Includes(config.models, config.defaultModel))
         THEN "Default model must be in the list of models"
    ELSE ""

\* deepMerge on two arrays: an array is an Object, so the source's elements
\* replace the target's index by index and the target's other elements stay.
deepMergeArray(target, source) ==
    [i \in 1..(IF Len(target) > Len(source) THEN Len(target) ELSE Len(source)) |->
        IF i <= Len(source) THEN source[i] ELSE target[i]]

\* deepMerge(this.providers, config) for a provider the manager has and array
\* or absent models.
deepMerge(current, config) ==
    [current EXCEPT ![config.provider] =
        [models |-> IF config.hasModels THEN deepMergeArray(@.models, config.models)
                    ELSE @.models,
         defaultModel |-> IF config.defaultModel # "" THEN config.defaultModel
                          ELSE @.defaultModel]]

CfgOp(op, arg, before, after, thrown) ==
    [op |-> op, arg |-> arg, before |-> before, after |-> after, thrown |-> thrown]

\* saveConfiguration(newConfig): validation, the merge into this.providers,
\* then mkdir and writeFile, either of which may reject; the catch logs and
\* throws the error again.
SaveConfiguration(newConfig, writeFails) ==
    /\ Len(cfgOps) < MaxCfgOps
    /\ LET invalid == validateConfiguration(providers, newConfig)
           merged == deepMerge(providers, newConfig)
       IN  IF invalid # ""
           THEN /\ cfgOps' = Append(cfgOps, CfgOp("save", newConfig, providers, providers, invalid))
                /\ UNCHANGED <<providers, cfgFile>>
           ELSE /\ providers' = merged
                /\ cfgFile' = IF writeFails THEN cfgFile
                              ELSE [exists |-> TRUE, saved |-> TRUE, config |-> merged]
                /\ cfgOps' = Append(cfgOps, CfgOp("save", newConfig, providers, merged,
                                                  IF writeFails THEN "EACCES" ELSE ""))
    /\ UNCHANGED <<tmVars, mainVars, mcpVars, reqVars, selVars, pyVars, srvVars, aiVars,
                   wfVars, orVars, prVars, wsVars>>

\* What loadConfiguration merges: the file's content, which is either the
\* whole providers object a save wrote or a user's configuration.
Loaded(current, file) ==
    IF ~file.exists THEN current
    ELSE IF file.saved
         THEN [p \in DOMAIN current |->
                 [models |-> deepMergeArray(current[p].models, file.config[p].models),
                  defaultModel |-> file.config[p].defaultModel]]
    ELSE deepMerge(current, file.config)

\* loadConfiguration(): readFile, JSON.parse and the merge, with no validation;
\* a missing file is caught and the current providers are returned.
LoadConfiguration ==
    /\ Len(cfgOps) < MaxCfgOps
    /\ providers' = Loaded(providers, cfgFile)
    /\ cfgOps' = Append(cfgOps, CfgOp("load", cfgFile, providers, providers', ""))
    /\ UNCHANGED <<cfgFile, tmVars, mainVars, mcpVars, reqVars, selVars, pyVars, srvVars,
                   aiVars, wfVars, orVars, prVars, wsVars>>

CfgIdle ==
    /\ providers = DefaultConfiguration
    /\ cfgFile = NoFile
    /\ cfgOps = << >>

\* ------------------------------------------------------- registry spec
TMDirs == {sCode, sCodeAnalysis}

RegInit ==
    /\ fs \in FileSystemsOver(TMDirs)
    /\ tmTools = << >>
    /\ tmInitialized = FALSE
    /\ listed = [op |-> "none", arg |-> << >>, result |-> << >>]
    /\ tmLoads = 0
    /\ tmRepeated = FALSE
    /\ MainIdle
    /\ McpIdle
    /\ ReqIdle
    /\ SelIdle
    /\ PyIdle
    /\ SrvIdle
    /\ AiIdle
    /\ WfIdle
    /\ OrIdle
    /\ PrIdle
    /\ WsIdle
    /\ CfgIdle

RegNext ==
    \/ TMInitialize
    \/ MainLoadAll
    \/ \E category \in QueryCategories : TMGetToolsByCategory(category)

SpecRegistry == RegInit /\ [][RegNext]_vars

\* C8: listing a category returns exactly the tools registered under that
\* category, in insertion order, and nothing registered under another one (an
\* empty list when the category holds no tool).
C8_ListExactlyCategory ==
    listed.op = "getToolsByCategory" =>
        LET own == SelectSeq(tmTools, LAMBDA e : e.value.dir = listed.arg)
        IN  listed.result = [i \in 1..Len(own) |-> [path |-> own[i].key, tool |-> own[i].value]]

\* C12: once initialize() has completed, the registry keeps the same names bound
\* to the same instances in every later step, whatever is called.
C12_WriteOnce ==
    [][tmInitialized => (tmInitialized' /\ tmTools' = tmTools)]_vars

\* C12 witness: initialize() was called again on a loaded registry that holds an
\* instance made by the load, and a category was listed.
C12_Witness ==
    /\ tmInitialized /\ tmRepeated
    /\ \E i \in 1..Len(tmTools) : tmTools[i].value.run = 1
    /\ listed.op = "getToolsByCategory" /\ listed.result # << >>

\* C10: after loading, every loadable module that did not throw is registered,
\* whatever the other modules of its category did.
C10_OnlyThrowingSkipped ==
    tmInitialized =>
        \A dir \in DOMAIN fs : \A i \in 1..Len(fs[dir]) :
            (Loadable(fs[dir][i].name) /\ ~fs[dir][i].throws)
                => HasKey(tmTools, dir \o Slash \o fs[dir][i].name)

\* ------------------------------------------------------- MCPServer spec
McpInit ==
    /\ TmIdle
    /\ MainIdle
    /\ McpIdle
    /\ ReqIdle
    /\ SelIdle
    /\ PyIdle
    /\ SrvIdle
    /\ AiIdle
    /\ WfIdle
    /\ OrIdle
    /\ PrIdle
    /\ WsIdle
    /\ CfgIdle

McpNext ==
    \/ \E id \in ToolIds, impl \in Impls : RegisterTool(id, impl)
    \/ \E r \in ReqIds, id \in ToolIds : InvokeTool(r, id)
    \/ \E r \in ReqIds, v \in ImplValues : ExecuteResolves(r, v)
    \/ \E r \in ReqIds, e \in ThrownValues : ExecuteRejects(r, e)

SpecMcp == McpInit /\ [][McpNext]_vars

\* C1: a second registration of a name does not overwrite: resolving a name
\* returns the implementation of the first registration of that name.
C1_FirstRegistrationKept ==
    \A id \in DOMAIN firstImpl : Get(mcpTools, id) = firstImpl[id]

\* C17: a name that was registered resolves to an implementation object that was
\* registered under that name, and a request that invoked the name ran an
\* implementation registered under it.
C17_ResolvesRegistered ==
    /\ \A id \in ToolIds :
          regImpls[id] # {} =>
              (HasKey(mcpTools, id) /\ Get(mcpTools, id) \in regImpls[id])
    /\ \A r \in ReqIds :
          (reqs[r].via = "mcp" /\ reqs[r].invoked = 1) =>
              reqs[r].tool \in regImpls[reqs[r].target]

\* C17 witness: two names are registered with different implementations and a
\* request invoked one of them.
C17_Witness ==
    /\ \A id \in ToolIds : regImpls[id] # {}
    /\ \E id1, id2 \in ToolIds : Get(mcpTools, id1) # Get(mcpTools, id2)
    /\ \E r \in ReqIds : reqs[r].via = "mcp" /\ reqs[r].invoked = 1

\* ------------------------------------------------------- dispatch spec
\* The unified server's ToolHandler over an initialized ToolManager, and
\* CoreServer.execute; each request goes through one of the two.
DispatchListings == {<< >>, <<[name |-> fXTool, throws |-> FALSE]>>}

DispatchInit ==
    /\ fs \in [{sAi, sCodeAnalysis} -> DispatchListings]
    /\ tmTools = << >>
    /\ tmInitialized = FALSE
    /\ listed = [op |-> "none", arg |-> << >>, result |-> << >>]
    /\ tmLoads = 0
    /\ tmRepeated = FALSE
    /\ MainIdle
    /\ McpIdle
    /\ reqs = [r \in ReqIds |-> NewRequest]
    /\ now = 0
    /\ maxExecutionTime \in 1..MaxTimeout
    /\ SelIdle
    /\ PyIdle
    /\ SrvIdle
    /\ AiIdle
    /\ WfIdle
    /\ OrIdle
    /\ PrIdle
    /\ WsIdle
    /\ CfgIdle

DispatchNext ==
    \/ \E throws \in BOOLEAN : ServerInitialize(throws)
    \/ ServerListen
    \/ \E r \in ReqIds, toolType \in ToolTypes, parses \in BOOLEAN :
          HttpPost(r, toolType, parses)
    \/ \E r \in ReqIds, v \in ImplValues : ProcessResolves(r, v)
    \/ \E r \in ReqIds, e \in ThrownValues : ProcessRejects(r, e)
    \/ \E r \in ReqIds, command \in Commands : Execute(r, command)
    \/ \E r \in ReqIds : ExecResolves(r)
    \/ \E r \in ReqIds, e \in ExecErrors : ExecRejects(r, e)
    \/ \E r \in ReqIds : TimerFires(r)
    \/ Tick

SpecDispatch == DispatchInit /\ [][DispatchNext]_vars

\* A tool is registered under the category the request's tool type stands for.
TargetRegistered(toolType) ==
    \E i \in 1..Len(tmTools) : tmTools[i].value.dir = CategoryOf(toolType)

\* C2: a request for a target with no registered tool ends with the not-found
\* failure result, without a throw and without any implementation invoked.
C2_UnregisteredNotFound ==
    \A r \in ReqIds :
        (reqs[r].via = "handler" /\ ~TargetRegistered(reqs[r].target)) =>
            /\ reqs[r].invoked = 0
            /\ reqs[r].result =
                  Returned([error |-> Msg("No tools found for type: ", reqs[r].target)])

\* C28: every program the shell starts for a command that CoreServer.execute
\* accepted is one of allowedCommands.
C28_OnlyAllowedProgramsRun ==
    \A r \in ReqIds :
        (reqs[r].via = "core" /\ reqs[r].invoked > 0) =>
            ShellPrograms(reqs[r].target) \subseteq allowedCommands

\* C3: whatever the implementation throws is caught and returned as a failure
\* result carrying the thrown error's message unchanged; nothing propagates.
C3_ThrownIsReturned ==
    \A r \in ReqIds :
        (reqs[r].via = "handler" /\ reqs[r].thrown # NothingThrown) =>
            /\ reqs[r].pc = "Failed"
            /\ reqs[r].result.how = "returned"
            /\ reqs[r].thrown.type = "Error" =>
                  reqs[r].result.body = [error |-> reqs[r].thrown.message]

\* The results of the dispatchers' own failures: no tool for the target, and
\* the time budget used up.
NotFoundResults ==
    {Returned([error |-> Msg("No tools found for type: ", t)]) : t \in ToolTypes}
TimeoutResult ==
    CoreCatch([message |-> Msg("Command execution timed out", << >>), code |-> 0])

\* C13: the result of a request whose implementation threw is never the result
\* of an unregistered target nor that of a timed-out invocation, whatever the
\* implementation's error says.
C13_FailuresDistinguishable ==
    \A r \in ReqIds :
        (reqs[r].thrown # NothingThrown /\ reqs[r].pc = "Failed") =>
            /\ reqs[r].result \notin NotFoundResults
            /\ reqs[r].result # TimeoutResult

\* C4: no dispatched request is still executing once its time budget has passed.
C4_EndsWithinBudget ==
    \A r \in ReqIds :
        reqs[r].pc = "Executing" => now - reqs[r].start <= maxExecutionTime

\* C5: a request moves Pending -> Executing -> one terminal outcome (or fails
\* while resolving); a terminal outcome and its result never change, also when
\* the abandoned call completes later; the implementation is invoked at most once.
C5_Step(r) ==
    LET a == reqs[r]
        b == reqs'[r]
    IN  /\ a.pc \in Terminal => (b.pc = a.pc /\ b.result = a.result /\ b.invoked = a.invoked)
        /\ a.pc = "Pending" => b.pc \in {"Pending", "Executing", "Failed"}
        /\ a.pc = "Executing" => b.pc \in {"Executing"} \cup Terminal
        /\ b.invoked <= 1
        /\ b.pc \in Terminal => b.result # NoResult

SelInit ==
    /\ TmIdle
    /\ MainIdle
    /\ McpIdle
    /\ ReqIdle
    /\ supportedModels \in [providerKeys -> SUBSET Models \ {{}}]
    /\ defaultProvider \in DefaultProviders
    /\ calls = << >>
    /\ PyIdle
    /\ SrvIdle
    /\ AiIdle
    /\ WfIdle
    /\ OrIdle
    /\ PrIdle
    /\ WsIdle
    /\ CfgIdle

SelNext ==
    \/ \E model \in RequestedModels : PredictByModel(model)
    \/ \E name \in RequestedNames, model \in {"m1", NoModel} : PredictByName(name, model)
    \/ \E name \in RequestedNames : GetProvider(name)

SpecSelector == SelInit /\ [][SelNext]_vars

\* The positions, in registration order, of the providers supporting a model.
Supporting(model) ==
    {i \in 1..Len(providerOrder) : model \in supportedModels[providerOrder[i]]}

\* C6: every model-based predict of a model some provider supports invokes the
\* provider registered first among those supporting it, on every call.
C6_FirstRegisteredWins ==
    \A k \in 1..Len(calls) :
        (calls[k].op = "predict" /\ calls[k].arg # NoModel /\ Supporting(calls[k].arg) # {}) =>
            \E i \in Supporting(calls[k].arg) :
                /\ \A j \in Supporting(calls[k].arg) : i <= j
                /\ calls[k].invoked = providerOrder[i]
                /\ calls[k].thrown = ""

\* C6 witness: two calls for a model that two providers support.
C6_Witness ==
    /\ Len(calls) = 2
    /\ calls[1].op = "predict" /\ calls[2] = calls[1]
    /\ calls[1].arg # NoModel
    /\ Cardinality(Supporting(calls[1].arg)) >= 2

\* C7: predict with an omitted or unregistered provider name invokes the
\* configured default provider, on every call.
C7_FallsBackToDefault ==
    \A k \in 1..Len(calls) :
        (calls[k].op = "predictByName" /\ calls[k].arg \notin providerKeys) =>
            /\ calls[k].invoked = defaultProvider
            /\ calls[k].thrown = ""

\* C14: a model-based predict of a model no provider supports invokes no
\* provider and fails with an error that names this cause: not the error of a
\* failure with another cause (a default provider that is not registered).
C14_ModelNotSupported ==
    \A k \in 1..Len(calls) :
        (calls[k].op = "predict" /\ calls[k].arg # NoModel /\ Supporting(calls[k].arg) = {}) =>
            /\ calls[k].invoked = "none"
            /\ calls[k].thrown # ""
            /\ \A j \in 1..Len(calls) :
                  (calls[j].op = "predict" /\ calls[j].arg = NoModel) =>
                      calls[j].thrown # calls[k].thrown

\* C15: getProvider returns the adapter registered under exactly the name asked
\* for, and fails with the not-found error for every other name.
C15_ExactLookup ==
    \A k \in 1..Len(calls) :
        calls[k].op = "getProvider" =>
            IF calls[k].arg \in providerKeys
            THEN calls[k].invoked = calls[k].arg /\ calls[k].thrown = ""
            ELSE calls[k].invoked = "none" /\ calls[k].thrown = "Provider not found"

\* ------------------------------------------------------- Python bridge spec
PyInit ==
    /\ TmIdle
    /\ MainIdle
    /\ McpIdle
    /\ ReqIdle
    /\ SelIdle
    /\ PyIdle
    /\ SrvIdle
    /\ AiIdle
    /\ WfIdle
    /\ OrIdle
    /\ PrIdle
    /\ WsIdle
    /\ CfgIdle

PyNext ==
    \/ SendToPython
    \/ StdoutReply
    \/ StdoutGarbage

SpecPython == PyInit /\ [][PyNext]_vars

\* C9: every call that has resolved resolved with the answer to its own message,
\* however many calls were in flight with it.
C9_OwnReply ==
    \A k \in 1..Len(pyCalls) :
        pyCalls[k].state = "resolved" => pyCalls[k].response = k

\* ------------------------------------------------------- server spec
\* The unified server from startServer on: initialization, listening, tool
\* requests over HTTP and the SSE clients that are notified of them.
SrvInit ==
    /\ fs \in [{sAi, sCodeAnalysis} -> DispatchListings]
    /\ tmTools = << >>
    /\ tmInitialized = FALSE
    /\ listed = [op |-> "none", arg |-> << >>, result |-> << >>]
    /\ tmLoads = 0
    /\ tmRepeated = FALSE
    /\ MainIdle
    /\ McpIdle
    /\ ReqIdle
    /\ SelIdle
    /\ PyIdle
    /\ SrvIdle
    /\ AiIdle
    /\ WfIdle
    /\ OrIdle
    /\ PrIdle
    /\ WsIdle
    /\ CfgIdle

\* The requests the server spec posts: a tool type with tools when its directory
\* has any, and one that never has tools; a tool fails with one error.
SrvToolTypes == {sAi, sWeb}
SrvThrownValues == {[type |-> "Error", message |-> Msg("boom", << >>)]}

SrvNext ==
    \/ \E throws \in BOOLEAN : ServerInitialize(throws)
    \/ ServerListen
    \/ \E r \in ReqIds, toolType \in SrvToolTypes, parses \in BOOLEAN :
          HttpPost(r, toolType, parses)
    \/ \E r \in ReqIds, v \in ImplValues : ProcessResolves(r, v)
    \/ \E r \in ReqIds, e \in SrvThrownValues : ProcessRejects(r, e)
    \/ \E r \in ReqIds : HttpRespond(r)
    \/ \E c \in Clients : SseConnect(c)
    \/ \E c \in Clients : SseBreak(c)
    \/ \E c \in Clients : SseClose(c)

SpecServer == SrvInit /\ [][SrvNext]_vars

\* C11: the server listens only once the registry is loaded, a request is
\* dispatched only while the server listens over a loaded registry, and a server
\* whose initialization failed has exited and never listens.
C11_Step ==
    /\ srvPc' = "listening" => tmInitialized'
    /\ srvPc = "exited" => srvPc' = "exited"
    /\ \A r \in ReqIds :
          (reqs[r].via = "none" /\ reqs'[r].via = "handler") =>
              (srvPc = "listening" /\ tmInitialized)

C11_ListenAfterLoad == [][C11_Step]_vars

\* C11 witness: a request was dispatched by a listening server, with a loaded tool.
C11_Witness ==
    /\ srvPc = "listening"
    /\ \E r \in ReqIds : reqs[r].via = "handler" /\ reqs[r].invoked = 1

\* C16: a server that listens has at least one capability registered.
C16_ZeroCapabilitiesIsFatal ==
    srvPc = "listening" => tmTools # << >>

\* C18: once the dispatcher has produced a result for a request, the response
\* written to the caller is that result, whether or not the tool_used event
\* could be delivered to each connected event-stream client.
C18_NotificationNeverChangesResponse ==
    \A r \in ReqIds :
        (httpResponse[r] # NoResponse /\ reqs[r].pc \in Terminal /\ reqs[r].result.how = "returned") =>
            httpResponse[r] = Response(200, reqs[r].result.body)

\* C18 witness: a request was answered with its tool's own value although the
\* tool_used event was lost for one client and written to another.
C18_Witness ==
    \E r \in ReqIds :
        /\ httpResponse[r] # NoResponse
        /\ reqs[r].invoked = 1
        /\ \E c \in Clients : sseWrites[r][c] = "lost"
        /\ \E c \in Clients : sseWrites[r][c] = "written"

\* ------------------------------------------------------- AI tool spec
\* An AITool constructed under any set of API keys that lets the constructor
\* return, and the generateResponse calls made on it.
AiInit ==
    /\ TmIdle
    /\ MainIdle
    /\ McpIdle
    /\ ReqIdle
    /\ SelIdle
    /\ PyIdle
    /\ SrvIdle
    /\ WfIdle
    /\ aiAvailable \in (SUBSET AiProviders) \ {{}}
    /\ aiCalls = << >>
    /\ OrIdle
    /\ PrIdle
    /\ WsIdle
    /\ CfgIdle

AiNext ==
    \E prompt \in Prompts, provider \in AiRequested : GenerateResponse(prompt, provider)

SpecAi == AiInit /\ [][AiNext]_vars

\* C19: a generateResponse call naming a provider that is not available is
\* answered by the default provider anthropic with success true, and every
\* returned result names in metadata.provider a provider that is available.
C19_FallsBackToDefault ==
    \A k \in 1..Len(aiCalls) :
        LET call == aiCalls[k]
        IN  /\ ("anthropic" \in aiAvailable
                  /\ call.provider \notin aiAvailable \cup {"undefined"}
                  /\ Trim(call.prompt) # << >>) =>
                  (call.result.thrown = "" /\ call.result.success
                     /\ call.result.provider = "anthropic")
            /\ call.result.thrown = "" => call.result.provider \in aiAvailable

\* ------------------------------------------------------- workflow spec
\* One workflow run on a new WorkflowManager, over every list of actions.
SeqsUpTo(S, n) == UNION {[1..k -> S] : k \in 0..n}

WfInit ==
    /\ TmIdle
    /\ MainIdle
    /\ McpIdle
    /\ ReqIdle
    /\ SelIdle
    /\ PyIdle
    /\ SrvIdle
    /\ AiIdle
    /\ WfIdle
    /\ OrIdle
    /\ PrIdle
    /\ WsIdle
    /\ CfgIdle

WfNext ==
    \/ \E kind \in {"patterns", "adaptations"}, actions \in SeqsUpTo(ActionNames, MaxActions) :
          WorkflowStart(kind, actions)
    \/ \E memory \in Memories, duration \in Durations : WorkflowStep(memory, duration)
    \/ WorkflowReturn

SpecWorkflow == WfInit /\ [][WfNext]_vars

\* C20: a workflow that has returned has called analyze once per action, in the
\* order of the actions, and its result is the list the meta-cognitive state
\* holds (its patterns, or its adaptations), each entry once.
C20_ReturnsStateList ==
    wfPc = "returned" =>
        /\ wfCalls = wfActions
        /\ wfOut = Collected(wfKind, mcState)

\* ------------------------------------------------------- MCP services spec
\* One run of a loop over a list of services, for every list and every runner.
OrInit ==
    /\ TmIdle
    /\ MainIdle
    /\ McpIdle
    /\ ReqIdle
    /\ SelIdle
    /\ PyIdle
    /\ SrvIdle
    /\ AiIdle
    /\ WfIdle
    /\ OrIdle
    /\ PrIdle
    /\ WsIdle
    /\ CfgIdle

OrNextStep ==
    \/ \E via \in Runners, services \in SeqsUpTo(Services, MaxServices), modelFails \in BOOLEAN :
          OrStart(via, services, modelFails)
    \/ OrCall
    \/ OrSettle
    \/ OrReturn

SpecServices == OrInit /\ [][OrNextStep]_vars

\* C21: a mcpIntegratedReasoning call whose model call and services all succeed
\* returns success true with mcpServicesProcessed equal to the number of
\* services supplied, which is the number of services whose execute was run.
C21_ProcessedCountsExecuted ==
    (orVia \in {"js", "ts"} /\ orPc \in {"returned", "thrown"}
       /\ orResult # OrError("model call failed", 0)
       /\ \A i \in 1..Len(orServices) : ~orServices[i].fails) =>
        /\ orPc = "returned"
        /\ orResult.success
        /\ orResult.mcpServicesProcessed = Len(orServices)
        /\ orResult.mcpServicesProcessed = Len(orExecuted)

PrInit ==
    /\ TmIdle
    /\ MainIdle
    /\ McpIdle
    /\ ReqIdle
    /\ SelIdle
    /\ PyIdle
    /\ SrvIdle
    /\ AiIdle
    /\ WfIdle
    /\ OrIdle
    /\ PrIdle
    /\ WsIdle
    /\ CfgIdle

PrNextStep == \E data \in PrData : AnalyzePatterns(data)

SpecPattern == PrInit /\ [][PrNextStep]_vars

\* C22: analyzePatterns of null or undefined data returns success false and a
\* defined error.
C22_NullDataFails ==
    \A k \in 1..Len(prCalls) :
        prCalls[k].data.kind \in {"null", "undefined"} =>
            (~prCalls[k].result.success /\ prCalls[k].result.error # "undefined")

\* C23: runPatternRecognitionWorkflow never returns a result for an empty
\* action list.
C23_EmptyListRejected ==
    (wfPc = "returned" /\ wfKind = "patterns") => wfActions # << >>

\* ------------------------------------------------------- meta-cognitive tool spec
\* Direct analyze calls on one MetaCognitiveTool.
MetaInit ==
    /\ TmIdle
    /\ MainIdle
    /\ McpIdle
    /\ ReqIdle
    /\ SelIdle
    /\ PyIdle
    /\ SrvIdle
    /\ AiIdle
    /\ WfIdle
    /\ OrIdle
    /\ PrIdle
    /\ WsIdle
    /\ CfgIdle

MetaNext ==
    \E data \in AnalyzeData, memory \in Memories, duration \in Durations :
        MetaAnalyze(data, memory, duration)

SpecMeta == MetaInit /\ [][MetaNext]_vars

\* C24: no analyze call throws; a call whose analysis fails returns success
\* false with the error message and the tool's state, which the failed call
\* left as it was.
C24_AnalyzeNeverThrows ==
    \A k \in 1..Len(mcCalls) :
        /\ ~mcCalls[k].result.threw
        /\ AnalyzeThrows(mcCalls[k].data) # "" =>
              /\ ~mcCalls[k].result.success
              /\ mcCalls[k].result.error = AnalyzeThrows(mcCalls[k].data)
              /\ mcCalls[k].result.state = mcCalls[k].before

\* C24 witness: analyze(null) was called on a tool that had recorded a pattern.
C24_Witness ==
    \E k \in 1..Len(mcCalls) :
        /\ mcCalls[k].data = "null"
        /\ mcCalls[k].before.patterns # << >>

\* ------------------------------------------------------- WebSocket spec
\* The messages of one open WebSocket connection.
WsInit ==
    /\ TmIdle
    /\ MainIdle
    /\ McpIdle
    /\ ReqIdle
    /\ SelIdle
    /\ PyIdle
    /\ SrvIdle
    /\ AiIdle
    /\ WfIdle
    /\ OrIdle
    /\ PrIdle
    /\ WsIdle
    /\ CfgIdle

WsNext ==
    \/ \E m \in MsgIds, kind \in MessageKinds : WsMessage(m, kind)
    \/ \E m \in MsgIds, outcome \in ToolOutcomes : WsToolSettles(m, outcome)

SpecWs == WsInit /\ [][WsNext]_vars

\* C26: a message never has two replies; a message whose callback has ended
\* has exactly one: a response of the message's type, with the unknown-type
\* error for a type other than tool_request and list_tools, or an error message.
C26_ExactlyOneReply ==
    \A m \in MsgIds :
        /\ Len(wsMsgs[m].replies) <= 1
        /\ wsMsgs[m].pc = "awaiting" => wsMsgs[m].replies = << >>
        /\ wsMsgs[m].pc = "done" =>
              /\ Len(wsMsgs[m].replies) = 1
              /\ LET reply == wsMsgs[m].replies[1]
                 IN  \/ reply.type = "error"
                     \/ /\ reply.type = "_response"
                        /\ reply.of = TypeOf(wsMsgs[m].kind)
                        /\ reply.unknown =
                              (TypeOf(wsMsgs[m].kind) \notin {"tool_request", "list_tools"})

\* C26 witness: one message was answered with an error after its tool rejected,
\* another with the unknown-type response.
C26_Witness ==
    /\ \E m \in MsgIds :
          wsMsgs[m].kind = "tool_request" /\ wsMsgs[m].pc = "done"
            /\ wsMsgs[m].replies[1].type = "error"
    /\ \E m \in MsgIds :
          wsMsgs[m].pc = "done" /\ wsMsgs[m].replies[1].unknown

\* ------------------------------------------------------- configuration spec
\* One AIProviderConfigManager over a configuration file that is absent or was
\* written by a user.
CfgInit ==
    /\ TmIdle
    /\ MainIdle
    /\ McpIdle
    /\ ReqIdle
    /\ SelIdle
    /\ PyIdle
    /\ SrvIdle
    /\ AiIdle
    /\ WfIdle
    /\ OrIdle
    /\ PrIdle
    /\ WsIdle
    /\ providers = DefaultConfiguration
    /\ cfgFile \in UserFiles
    /\ cfgOps = << >>

CfgNext ==
    \/ \E newConfig \in NewConfigs, writeFails \in BOOLEAN :
          SaveConfiguration(newConfig, writeFails)
    \/ LoadConfiguration

SpecConfig == CfgInit /\ [][CfgNext]_vars

\* C27: as long as every save and load call made has succeeded, every
\* provider's defaultModel is one of the provider's models.
C27_DefaultModelListed ==
    (\A k \in 1..Len(cfgOps) : cfgOps[k].thrown = "") =>
        \A p \in DOMAIN providers : Includes(providers[p].models, providers[p].defaultModel)

\* C29: a saveConfiguration call that threw left the providers as they were
\* before the call.
C29_FailedSaveChangesNothing ==
    \A k \in 1..Len(cfgOps) :
        (cfgOps[k].op = "save" /\ cfgOps[k].thrown # "") => cfgOps[k].after = cfgOps[k].before


\* ------------------------------------------------------- SSE spec
\* The unified server with its SSE clients, their heartbeats and the
\* notifications, without the tool requests.
SseNext ==
    \/ \E throws \in BOOLEAN : ServerInitialize(throws)
    \/ ServerListen
    \/ \E c \in Clients : SseConnect(c)
    \/ \E c \in Clients : SseBreak(c)
    \/ \E c \in Clients : SseClose(c)
    \/ \E c \in Clients : Heartbeat(c)
    \/ \E r \in ReqIds : NotifySSEClients(r)

\* The tool directories hold a tool each.
SseInit ==
    /\ SrvInit
    /\ \A d \in DOMAIN fs : fs[d] # << >>

SpecSse == SseInit /\ [][SseNext]_vars

\* In one step: a stream is written to (a heartbeat or an update) only while it
\* is in sseClients, and a notification reaches every stream of sseClients,
\* being written to each whose connection is still there.
C30_StepOk ==
    /\ \A c \in Clients :
          (sseStream'[c].heartbeats > sseStream[c].heartbeats) => c \in sseClients
    /\ \A r \in ReqIds :
          sseWrites'[r] # sseWrites[r] =>
             \A c \in Clients :
                /\ (c \in sseClients) = (sseWrites'[r][c] # "none")
                /\ (c \in sseClients \ sseBroken) = (sseWrites'[r][c] = "written")

\* A stream is in sseClients exactly between its request and its 'close'
\* event, and its heartbeat interval is set exactly then.
C30_Membership ==
    \A c \in Clients :
        /\ (c \in sseClients) = (sseEvents[c] = "request")
        /\ (c \in sseHeartbeat) = (c \in sseClients)

\* C30: a response stream is in sseClients exactly from its SSE request until
\* its 'close' event; once closed it gets no heartbeat and no update; every
\* notifySSEClients call writes one update to each client connected then.
C30_ClientsExactlyWhileOpen == []C30_Membership /\ [][C30_StepOk]_vars

\* A stream that was closed after a heartbeat, beside one that was notified.
C30_Witness ==
    \E c, d \in Clients :
        /\ sseEvents[c] = "close"
        /\ sseStream[c].heartbeats > 0
        /\ \E r \in ReqIds : sseWrites[r][d] = "written"
====
